---------------------------- MODULE Spec2Model ----------------------------
(***************************************************************************)
(* A model of mosaic-pixel-matrixator: the median-cut ColorQuantizer, the  *)
(* ColorConverter / ColorMixer / ColorBaseSelector colour arithmetic, the  *)
(* PaintColorInventory, the MatrixGenerator dimension arithmetic, the      *)
(* file_handler writers and main's stage sequence.                         *)
(*                                                                         *)
(* Python floats are modelled by exact rationals (integer numerators over  *)
(* a stated denominator); round(x, 1) becomes rounding a rational to an    *)
(* integer number of tenths, and where the rational is an exact tie the    *)
(* direction is an input (tie), since the float the code rounds is only    *)
(* near the rational.                                                      *)
(***************************************************************************)
EXTENDS Integers, Sequences, FiniteSets, TLC

VARIABLES
    qpc,            \* ColorQuantizer: position of the quantize_matrix call
    num_colors_arg, \* what the caller handed in as num_colors
    num_colors,     \* self.num_colors
    palette,        \* self.palette
    matrix,         \* the matrix handed to quantize_matrix
    boxes,          \* _median_cut_quantize: the list of boxes
    quantized,      \* the matrix quantize_matrix returns
    calls           \* the finished quantize_matrix calls, the cuts of the running one,
                    \* and what the last get_palette returned

VARIABLES
    target_cmyk,    \* calculate_mix_instructions: its target_cmyk argument, in hundredths of a percent
    mix_info        \* calculate_mix_instructions: what it returned (raw: mix before the scaling)

VARIABLES
    rgb_in,         \* ColorConverter / ColorMixer: the (r, g, b) argument
    conv_op,        \* which conversion was called
    conv_out        \* what it returned

VARIABLES
    color_counts,   \* PaintColorInventory.color_counts, in insertion order
    add_log,        \* the colours handed to add_color so far, in call order
    paints          \* what the last get_required_paints returned

VARIABLES
    dim_in,         \* calculate_dimensions_preserving_aspect_ratio: image size, request
    dim_out,        \* what it returned
    gpc,            \* MatrixGenerator: position of the generate_matrix call
    gen_in,         \* generate_matrix: image size, request, tile size, flags
    gen_out         \* what the MatrixGenerator call returned or raised

VARIABLES
    file_matrix,    \* file_handler: the matrix handed to the writer
    file_op,        \* which writer was called
    file_out        \* the file it left behind and how the call ended

VARIABLES
    mpc,            \* main: the stage it is at
    menv,           \* main: command line, input directory, image, typed input
    mstate,         \* main: its locals (dimensions, matrix)
    outputs,        \* main: the lines printed so far, in order
    exit_code       \* main: how the process ended

quantVars == <<qpc, num_colors_arg, num_colors, palette, matrix, boxes, quantized, calls>>

mixVars == <<target_cmyk, mix_info>>

convVars == <<rgb_in, conv_op, conv_out>>

invVars == <<color_counts, add_log, paints>>

dimVars == <<dim_in, dim_out, gpc, gen_in, gen_out>>

fileVars == <<file_matrix, file_op, file_out>>

mainVars == <<mpc, menv, mstate, outputs, exit_code>>

vars == <<quantVars, mixVars, convVars, invVars, dimVars, fileVars, mainVars>>

\* what each component leaves alone
exceptQuant == <<mixVars, convVars, invVars, dimVars, fileVars, mainVars>>

exceptMix == <<quantVars, convVars, invVars, dimVars, fileVars, mainVars>>

exceptConv == <<quantVars, mixVars, invVars, dimVars, fileVars, mainVars>>

exceptInv == <<quantVars, mixVars, convVars, dimVars, fileVars, mainVars>>

exceptDim == <<quantVars, mixVars, convVars, invVars, fileVars, mainVars>>

exceptFile == <<quantVars, mixVars, convVars, invVars, dimVars, mainVars>>

exceptMain == <<quantVars, mixVars, convVars, invVars, dimVars, fileVars>>

---------------------------------------------------------------------------
(* Bounds of the model *)

\* how many of SampleColors the pixels are drawn from
NumColors == 4
\* the largest number of cells (rows * cols) of a matrix
MaxPixels == 3
\* the largest palette size a caller asks for
MaxK == 3
\* how far below zero a caller's palette size goes
MinKBelow == 1

---------------------------------------------------------------------------
(* Generic helpers *)

Min(a, b) == IF a <= b THEN a ELSE b

Max(a, b) == IF a >= b THEN a ELSE b

Abs(a) == IF a >= 0 THEN a ELSE -a

SetMax(S) == CHOOSE x \in S : \A y \in S : y <= x

SetMin(S) == CHOOSE x \in S : \A y \in S : x <= y

SeqRange(s) == {s[i] : i \in 1..Len(s)}

RECURSIVE SeqSum(_)
SeqSum(s) == IF Len(s) = 0 THEN 0 ELSE s[1] + SeqSum(Tail(s))

\* The pixels a matrix may hold: 8-bit RGB triples.
SampleColors ==
    << <<0, 0, 0>>, <<255, 255, 255>>, <<1, 2, 0>>, <<2, 1, 0>>,
       <<255, 128, 64>>, <<0, 0, 3>>, <<200, 100, 50>> >>

Colors == {SampleColors[i] : i \in 1..Min(NumColors, Len(SampleColors))}

BLACK == <<0, 0, 0>>

\* numpy shapes (rows, cols, 3) with at most MaxPixels cells; rows = 0 is the
\* empty grid.
Shapes == {sh \in (0..MaxPixels) \X (1..MaxPixels) : sh[1] * sh[2] <= MaxPixels}

\* A matrix: its shape and its cells in row-major order (matrix.reshape(-1, 3)).
Matrices ==
    UNION {{[rows |-> sh[1], cols |-> sh[2], px |-> p] :
                p \in [1..(sh[1] * sh[2]) -> Colors]} : sh \in Shapes}

NoMatrix == [rows |-> 0, cols |-> 0, px |-> <<>>]

---------------------------------------------------------------------------
(* ColorQuantizer *)

NonePalette == [kind |-> "None", data |-> <<>>]

Array(rowsOf) == [kind |-> "array", data |-> rowsOf]

\* generate_matrix: ColorQuantizer(num_colors=num_colors or 32)
DEFAULT_NUM_COLORS == 32

NumColorsOr(nc) == IF (~nc.given) \/ nc.value = 0 THEN DEFAULT_NUM_COLORS ELSE nc.value

\* box.max(axis=0) - box.min(axis=0)
Ranges(box) ==
    [ch \in 1..3 |-> SetMax({box[i][ch] : i \in 1..Len(box)})
                     - SetMin({box[i][ch] : i \in 1..Len(box)})]

\* ranges.max()
MaxRange(box) == SetMax({Ranges(box)[ch] : ch \in 1..3})

\* (mutant) the last channel holding the largest range
ArgMaxChannelLast(box) ==
    SetMax({ch \in 1..3 : Ranges(box)[ch] = MaxRange(box)})

\* np.argmax(ranges): the first channel holding the largest range
ArgMaxChannel(box) ==
    SetMin({ch \in 1..3 : Ranges(box)[ch] = MaxRange(box)})

\* the for loop that finds the box with the largest range
RECURSIVE ScanBoxes(_, _, _, _)
ScanBoxes(bs, i, largest_box_idx, largest_range) ==
    IF i > Len(bs) THEN largest_box_idx
    ELSE IF Len(bs[i]) = 0 THEN ScanBoxes(bs, i + 1, largest_box_idx, largest_range)
    ELSE IF MaxRange(bs[i]) > largest_range
         THEN ScanBoxes(bs, i + 1, i, MaxRange(bs[i]))
         ELSE ScanBoxes(bs, i + 1, largest_box_idx, largest_range)

LargestBoxIdx(bs) == ScanBoxes(bs, 1, 1, 0)

\* np.argsort(box[:, channel]): the default sort is not stable, so every order
\* of the indices that is ascending on the channel is an outcome.  When all the
\* points of the box are equal every order gives the same sorted box, and the
\* identity stands for them all.
ArgSorts(box, channel) ==
    IF \A i \in 1..Len(box) : box[i] = box[1]
    THEN {[i \in 1..Len(box) |-> i]}
    ELSE {p \in [1..Len(box) -> 1..Len(box)] :
            /\ \A i, j \in 1..Len(box) : i # j => p[i] # p[j]
            /\ \A i, j \in 1..Len(box) : i < j => box[p[i]][channel] <= box[p[j]][channel]}

\* boxes.pop(idx)
Pop(bs, idx) == SubSeq(bs, 1, idx - 1) \o SubSeq(bs, idx + 1, Len(bs))

\* (mutant) the cut leaves the median point out of both halves
SplitBoxesDropsMedian(bs, idx, p) ==
    LET box == bs[idx]
        sorted_box == [i \in 1..Len(box) |-> box[p[i]]]
        median_idx == Len(sorted_box) \div 2
        box1 == SubSeq(sorted_box, 1, median_idx)
        box2 == SubSeq(sorted_box, median_idx + 2, Len(sorted_box))
    IN  Pop(bs, idx)
          \o (IF Len(box1) > 0 THEN <<box1>> ELSE <<>>)
          \o (IF Len(box2) > 0 THEN <<box2>> ELSE <<>>)

\* the two halves of the sorted box, appended when non-empty
SplitBoxes(bs, idx, p) ==
    LET box == bs[idx]
        sorted_box == [i \in 1..Len(box) |-> box[p[i]]]
        median_idx == Len(sorted_box) \div 2
        box1 == SubSeq(sorted_box, 1, median_idx)
        box2 == SubSeq(sorted_box, median_idx + 1, Len(sorted_box))
    IN  Pop(bs, idx)
          \o (IF Len(box1) > 0 THEN <<box1>> ELSE <<>>)
          \o (IF Len(box2) > 0 THEN <<box2>> ELSE <<>>)

\* box.mean(axis=0).astype(np.uint8): the mean, truncated
MeanColor(box) ==
    [ch \in 1..3 |-> SeqSum([i \in 1..Len(box) |-> box[i][ch]]) \div Len(box)]

\* the average colour of each non-empty box
RECURSIVE BoxColors(_)
BoxColors(bs) ==
    IF Len(bs) = 0 THEN <<>>
    ELSE (IF Len(bs[1]) > 0 THEN <<MeanColor(bs[1])>> ELSE <<>>) \o BoxColors(Tail(bs))

\* (mutant) the padding entries are white
RECURSIVE PadWhite(_, _)
PadWhite(pal, k) == IF Len(pal) < k THEN PadWhite(Append(pal, <<255, 255, 255>>), k) ELSE pal

\* while len(palette) < self.num_colors: palette.append([0, 0, 0])
RECURSIVE PadBlack(_, _)
PadBlack(pal, k) == IF Len(pal) < k THEN PadBlack(Append(pal, BLACK), k) ELSE pal

\* palette[:self.num_colors], Python's slice (a negative stop counts from the end)
SliceTo(pal, k) ==
    IF k >= 0 THEN SubSeq(pal, 1, Min(k, Len(pal)))
    ELSE SubSeq(pal, 1, Max(0, Len(pal) + k))

BuildPalette(bs, k) == SliceTo(PadBlack(BoxColors(bs), k), k)

\* (mutant) the empty grid falls through to the padding loop
EmptyGridPalettePadded(k) == PadBlack(<<>>, k)

\* the palette returned for len(pixels) == 0
EmptyGridPalette(k) == <<BLACK>>

\* weighted squared distance, in thousandths (weights 0.299, 0.587, 0.114)
WeightedDistance(color, entry) ==
    299 * (entry[1] - color[1]) * (entry[1] - color[1])
    + 587 * (entry[2] - color[2]) * (entry[2] - color[2])
    + 114 * (entry[3] - color[3]) * (entry[3] - color[3])

\* the indices np.argmin(weighted_distances) may return.  The distances are
\* float64 sums: two entries with the same squared differences get the same
\* float, and the first one wins; two entries at the same exact distance with
\* different squared differences get floats one rounding apart (0.587*16 +
\* 0.114*2116 gives 250.616, 0.299*196 + 0.587*324 + 0.114*16 gives
\* 250.61599999999999), and either may be the smaller.
ClosestIdxs(color, pal) ==
    LET least == {i \in 1..Len(pal) :
                    \A j \in 1..Len(pal) :
                       WeightedDistance(color, pal[i]) <= WeightedDistance(color, pal[j])}
        Squares(i) == [ch \in 1..3 |-> (pal[i][ch] - color[ch]) * (pal[i][ch] - color[ch])]
    IN  {i \in least : \A j \in least : j < i => Squares(j) # Squares(i)}

\* np.argmin(weighted_distances): `prefer` is the index the floats favour
ClosestIdx(color, pal, prefer) ==
    IF prefer \in ClosestIdxs(color, pal) THEN prefer ELSE SetMin(ClosestIdxs(color, pal))

\* (mutant) the pixel is kept instead of its palette entry
FindClosestColorKeepsPixel(color, pal, prefer) == color

FindClosestColor(color, pal, prefer) == pal[ClosestIdx(color, pal, prefer)]

\* (mutant) the loop goes on while there are up to num_colors boxes
LoopConditionOneMore == Len(boxes) <= num_colors /\ Len(boxes) > 0

\* the while condition of the split loop
LoopCondition == Len(boxes) < num_colors /\ Len(boxes) > 0

\* (mutant) the loop also stops when the chosen box has no range left
CanSplitWithRange ==
    /\ LoopCondition
    /\ Len(boxes[LargestBoxIdx(boxes)]) > 1
    /\ MaxRange(boxes[LargestBoxIdx(boxes)]) > 0

\* the loop goes on: its condition holds and the chosen box has > 1 point
CanSplit == LoopCondition /\ Len(boxes[LargestBoxIdx(boxes)]) > 1

\* ColorQuantizer(num_colors=k)
NewQuantizer(k) ==
    /\ qpc = "none"
    /\ num_colors_arg' = [given |-> TRUE, value |-> k]
    /\ num_colors' = k
    /\ palette' = NonePalette
    /\ qpc' = "ready"
    /\ UNCHANGED <<matrix, boxes, quantized, calls>>
    /\ UNCHANGED exceptQuant

\* generate_matrix's quantizer: ColorQuantizer(num_colors=num_colors or 32)
GenerateMatrixQuantizer(nc) ==
    /\ qpc = "none"
    /\ num_colors_arg' = nc
    /\ num_colors' = NumColorsOr(nc)
    /\ palette' = NonePalette
    /\ qpc' = "ready"
    /\ UNCHANGED <<matrix, boxes, quantized, calls>>
    /\ UNCHANGED exceptQuant

\* quantize_matrix up to the start of the split loop
StartQuantize(m) ==
    /\ matrix' = m
    /\ calls' = [calls EXCEPT !.cuts = <<>>]
    /\ IF Len(m.px) = 0
       THEN /\ palette' = Array(EmptyGridPalette(num_colors))
            /\ boxes' = <<>>
            /\ qpc' = "map"
       ELSE /\ boxes' = <<m.px>>
            /\ palette' = palette
            /\ qpc' = "split"
    /\ UNCHANGED <<num_colors_arg, num_colors, quantized>>
    /\ UNCHANGED exceptQuant

\* the first quantize_matrix call on a new quantizer
QuantizeMatrix(m) ==
    /\ qpc = "ready"
    /\ StartQuantize(m)

\* np.argsort is a function: a call on a matrix this quantizer has had before
\* sorts every box as it did then, so its n-th split leaves the same boxes
SameSortAsBefore(cut) ==
    \A n \in 1..Len(calls.past) :
        calls.past[n].matrix = matrix => cut = calls.past[n].cuts[Len(calls.cuts) + 1]

\* one iteration of the split loop that splits a box
SplitStep ==
    /\ qpc = "split"
    /\ CanSplit
    /\ \E idx \in {LargestBoxIdx(boxes)} :
         \E channel \in {ArgMaxChannel(boxes[idx])} :
           \E p \in ArgSorts(boxes[idx], channel) :
               /\ boxes' = SplitBoxes(boxes, idx, p)
               /\ SameSortAsBefore(boxes')
               /\ calls' = [calls EXCEPT !.cuts = Append(@, boxes')]
    /\ UNCHANGED <<qpc, num_colors_arg, num_colors, palette, matrix, quantized>>
    /\ UNCHANGED exceptQuant

\* (mutant) the palette is stored only while self.palette is None
EndSplitKeepsFirstPalette ==
    /\ qpc = "split"
    /\ ~CanSplit
    /\ palette' = (IF palette.kind = "None" THEN Array(BuildPalette(boxes, num_colors)) ELSE palette)
    /\ qpc' = "map"
    /\ UNCHANGED <<num_colors_arg, num_colors, matrix, boxes, quantized, calls>>
    /\ UNCHANGED exceptQuant

\* the loop ends (condition false, or break); the palette is built and stored
EndSplit ==
    /\ qpc = "split"
    /\ ~CanSplit
    /\ palette' = Array(BuildPalette(boxes, num_colors))
    /\ qpc' = "map"
    /\ UNCHANGED <<num_colors_arg, num_colors, matrix, boxes, quantized, calls>>
    /\ UNCHANGED exceptQuant

\* every pixel is mapped to its closest palette colour; an empty palette cannot
\* be broadcast against a pixel (ValueError)
MapPixels ==
    /\ qpc = "map"
    /\ IF Len(matrix.px) > 0 /\ Len(palette.data) = 0
       THEN /\ qpc' = "raised"
            /\ quantized' = quantized
            /\ calls' = calls
       ELSE /\ \E prefer \in {1} \cup UNION {ClosestIdxs(matrix.px[i], palette.data) :
                                                  i \in 1..Len(matrix.px)} :
                 quantized' = [matrix EXCEPT !.px =
                                 [i \in 1..Len(matrix.px) |->
                                     FindClosestColor(matrix.px[i], palette.data, prefer)]]
            /\ calls' = [calls EXCEPT !.past =
                            Append(@, [matrix |-> matrix, palette |-> palette,
                                       cuts |-> calls.cuts])]
            /\ qpc' = "returned"
    /\ UNCHANGED <<num_colors_arg, num_colors, palette, matrix, boxes>>
    /\ UNCHANGED exceptQuant

\* a uniform 10 x 10 grid of (255,128,64)
UniformGrid == [rows |-> 10, cols |-> 10, px |-> [i \in 1..100 |-> <<255, 128, 64>>]]

\* three pixels of which the middle one is, for K = 2, equally far from both
\* palette entries (0,0,0) and (14,22,50)
TieGrid == [rows |-> 1, cols |-> 3,
            px |-> << <<0, 0, 0>>, <<0, 4, 46>>, <<28, 40, 54>> >>]

\* the matrices handed to quantize_matrix
QuantMatrices == Matrices \cup {UniformGrid, TieGrid}

KValues == ((0 - MinKBelow)..MaxK) \cup {8}

NumColorsArgs ==
    {[given |-> FALSE, value |-> 0]} \cup {[given |-> TRUE, value |-> k] : k \in KValues}

\* a quantizer that was never called
NoCalls == [past |-> <<>>, cuts |-> <<>>, got |-> [kind |-> "not called", data |-> <<>>]]

QuantIdle ==
    /\ qpc = "none"
    /\ num_colors_arg = [given |-> FALSE, value |-> 0]
    /\ num_colors = 0
    /\ palette = NonePalette
    /\ matrix = NoMatrix
    /\ boxes = <<>>
    /\ quantized = NoMatrix
    /\ calls = NoCalls

QuantNext ==
    \/ \E k \in KValues : NewQuantizer(k)
    \/ \E nc \in NumColorsArgs : GenerateMatrixQuantizer(nc)
    \/ \E m \in QuantMatrices : QuantizeMatrix(m)
    \/ SplitStep
    \/ EndSplit
    \/ MapPixels

---------------------------------------------------------------------------
(* The state of each component before it is used *)

NoCall == [called |-> FALSE]

MixIdle ==
    /\ target_cmyk = [c |-> 0, m |-> 0, y |-> 0, k |-> 0]
    /\ mix_info = NoCall

ConvIdle ==
    /\ rgb_in = <<0, 0, 0>>
    /\ conv_op = "none"
    /\ conv_out = NoCall

InvIdle ==
    /\ color_counts = <<>>
    /\ add_log = <<>>
    /\ paints = NoCall

\* generate_matrix's arguments: PIL image size, requested centimetres, the
\* generator's tile size in tenths of a centimetre, the two flags, num_colors
GenArgs(size, w, h, tile10, preserve, quantize, nc) ==
    [image_size |-> size, width |-> w, height |-> h, tile_size_cm |-> tile10,
     preserve_aspect_ratio |-> preserve, quantize_colors |-> quantize, num_colors |-> nc]

\* nothing returned yet
NoResult ==
    [op |-> "none", error |-> "none", shape |-> <<0, 0>>, den |-> 1,
     size_cm |-> <<0, 0>>, diff_cm |-> <<0, 0>>, matrix |-> NoMatrix, total_tiles |-> 0]

GenIdle ==
    /\ gpc = "none"
    /\ gen_in = GenArgs(<<1, 1>>, 1, 1, 20, TRUE, TRUE, [given |-> FALSE, value |-> 0])
    /\ gen_out = NoResult

DimIdle ==
    /\ dim_in = [orig_width |-> 1, orig_height |-> 1, width |-> 1, height |-> 1]
    /\ dim_out = NoCall
    /\ GenIdle

FileIdle ==
    /\ file_matrix = NoMatrix
    /\ file_op = "none"
    /\ file_out = NoCall

MainIdle ==
    /\ mpc = "idle"
    /\ menv = [called |-> FALSE]
    /\ mstate = [called |-> FALSE]
    /\ outputs = <<>>
    /\ exit_code = "running"

---------------------------------------------------------------------------
(* ColorQuantizer: construction, then one quantize_matrix call, as
   generate_matrix uses it *)

QuantInit ==
    /\ QuantIdle
    /\ MixIdle /\ ConvIdle /\ InvIdle /\ DimIdle /\ FileIdle /\ MainIdle

SpecQuant == QuantInit /\ [][QuantNext]_vars

\* the quantize_matrix call has built its palette
PaletteBuilt == qpc \in {"map", "returned", "raised"}

(* C1: for a non-empty grid and K >= 1, quantize_matrix does not raise, its
   palette has at most K entries, every cell of the returned matrix (same
   shape as the input) is equal to a palette entry, and the returned matrix
   holds at most K distinct colours. *)
C1_QuantizedWithinPalette ==
    (num_colors >= 1 /\ Len(matrix.px) > 0) =>
        /\ qpc # "raised"
        /\ PaletteBuilt =>
              /\ palette.kind = "array"
              /\ Len(palette.data) <= num_colors
        /\ qpc = "returned" =>
              /\ quantized.rows = matrix.rows
              /\ quantized.cols = matrix.cols
              /\ Len(quantized.px) = Len(matrix.px)
              /\ \A i \in 1..Len(quantized.px) :
                    \E j \in 1..Len(palette.data) : quantized.px[i] = palette.data[j]
              /\ Cardinality(SeqRange(quantized.px)) <= num_colors

\* a grid with more distinct colours than K has been quantized
C1_Witness ==
    /\ qpc = "returned"
    /\ num_colors = 2
    /\ Cardinality(SeqRange(matrix.px)) = 3
    /\ SeqRange(quantized.px) # SeqRange(matrix.px)

(* C9: quantizing an empty grid raises nothing and, for every K >= 1, builds a
   palette of exactly one entry, black. *)
C9_EmptyGridBlackPalette ==
    (num_colors >= 1 /\ Len(matrix.px) = 0 /\ qpc \notin {"none", "ready"}) =>
        /\ qpc # "raised"
        /\ PaletteBuilt
        /\ palette = Array(<<BLACK>>)

\* an empty grid was quantized with K > 1 and the call returned
C9_Witness ==
    /\ qpc = "returned"
    /\ matrix.rows = 0
    /\ Len(matrix.px) = 0
    /\ num_colors >= 2
    /\ Len(palette.data) = 1

(* C10: a palette size K <= 0 is rejected before any palette is built or any
   cell is remapped, for every grid: the quantizer never enters the split
   loop, never stores a palette and never returns, and the K the caller gave
   is the K the quantizer holds (0 is not replaced by another value). *)
C10_NonPositiveKRejected ==
    (num_colors_arg.given /\ num_colors_arg.value <= 0 /\ qpc # "none") =>
        /\ num_colors = num_colors_arg.value
        /\ palette.kind = "None"
        /\ qpc \in {"ready", "raised"}

---------------------------------------------------------------------------
(* ColorBaseSelector.calculate_mix_instructions.  The CMYK argument is in
   hundredths of a percent; a 'percentage' of the recipe, which the code
   rounds to one decimal, is in tenths of a percent. *)

\* spacing of the sampled CMYK channel values, in hundredths of a percent
MixStep == 2500

\* round(num / den): the nearest integer; an exact tie goes up when `up`
RoundDiv(num, den, up) ==
    LET q == num \div den
        r == num % den
    IN  IF 2 * r < den THEN q
        ELSE IF 2 * r > den THEN q + 1
        ELSE IF up THEN q + 1 ELSE q

\* round(x, 1) of x hundredths of a percent, in tenths
Round1(x, up) == RoundDiv(x, 10, up)

MixChannel ==
    {i * MixStep : i \in 0..(10000 \div MixStep)} \cup {4, 5, 500, 999, 1000, 9500}

TargetCmyks == [c : MixChannel, m : MixChannel, y : MixChannel, k : MixChannel]

Entry(color, pct) == [color |-> color, percentage |-> pct]

\* (mutant) black is appended before the three colours
ChannelEntriesBlackFirst(t, up) ==
    (IF t.k > 0 THEN <<Entry("black", Round1(t.k, up))>> ELSE <<>>)
    \o (IF t.c > 0 THEN <<Entry("cyan", Round1(t.c, up))>> ELSE <<>>)
    \o (IF t.m > 0 THEN <<Entry("magenta", Round1(t.m, up))>> ELSE <<>>)
    \o (IF t.y > 0 THEN <<Entry("yellow", Round1(t.y, up))>> ELSE <<>>)

\* lines 97-104: one entry per channel that is > 0
ChannelEntries(t, up) ==
    (IF t.c > 0 THEN <<Entry("cyan", Round1(t.c, up))>> ELSE <<>>)
    \o (IF t.m > 0 THEN <<Entry("magenta", Round1(t.m, up))>> ELSE <<>>)
    \o (IF t.y > 0 THEN <<Entry("yellow", Round1(t.y, up))>> ELSE <<>>)
    \o (IF t.k > 0 THEN <<Entry("black", Round1(t.k, up))>> ELSE <<>>)

\* (mutant) white is never added as a base
WhiteEntryNever(t, up) == <<>>

\* lines 107-118: the white entry
WhiteEntry(t, up) ==
    IF t.c < 1000 /\ t.m < 1000 /\ t.y < 1000 /\ t.k < 1000
    THEN LET white_pct == 10000 - SetMax({t.c, t.m, t.y, t.k})
         IN  IF white_pct > 0 THEN <<Entry("white", Round1(white_pct, up))>> ELSE <<>>
    ELSE LET total_colored == t.c + t.m + t.y + t.k
         IN  IF total_colored < 10000 /\ 10000 - total_colored > 500
             THEN <<Entry("white", Round1(10000 - total_colored, up))>>
             ELSE <<>>

TotalOf(mix) == SeqSum([i \in 1..Len(mix) |-> mix[i].percentage])

\* round(item['percentage'] * scale, 1) with scale = 100.0 / total
ScaledPercentage(pct, total, up) == RoundDiv(pct * 1000, total, up)

\* lines 121-125: the percentages scaled by 100 / total, each rounded
Normalize(mix, ties) ==
    IF TotalOf(mix) > 0
    THEN [i \in 1..Len(mix) |->
            Entry(mix[i].color, ScaledPercentage(mix[i].percentage, TotalOf(mix), ties[i]))]
    ELSE mix

\* lines 128-132
Instruction(mix) ==
    IF Len(mix) = 0
    THEN [text |-> "Use white (100%)", parts |-> <<>>]
    ELSE [text |-> "Mix: ", parts |-> [i \in 1..Len(mix) |-> <<mix[i].percentage, mix[i].color>>]]

MixInstructions(t, up, ties) ==
    LET raw == ChannelEntries(t, up) \o WhiteEntry(t, up)
        mix == Normalize(raw, ties)
    IN  [called |-> TRUE, raw |-> raw, mix |-> mix, instruction |-> Instruction(mix)]

CalculateMixInstructions ==
    /\ ~mix_info.called
    /\ \E up \in BOOLEAN, ties \in [1..5 -> BOOLEAN] :
           mix_info' = MixInstructions(target_cmyk, up, ties)
    /\ UNCHANGED target_cmyk
    /\ UNCHANGED exceptMix

MixInit ==
    /\ target_cmyk \in TargetCmyks
    /\ mix_info = NoCall
    /\ QuantIdle /\ ConvIdle /\ InvIdle /\ DimIdle /\ FileIdle /\ MainIdle

MixNext == CalculateMixInstructions

SpecMix == MixInit /\ [][MixNext]_vars

(* C2: for every CMYK input with channels in [0,100], the recipe has only
   non-negative percentages and, when non-empty, they sum to 100.0 within 0.1
   after the per-entry rounding. *)
C2_RecipeSumsTo100 ==
    mix_info.called =>
        /\ \A i \in 1..Len(mix_info.mix) : mix_info.mix[i].percentage >= 0
        /\ Len(mix_info.mix) > 0 => Abs(TotalOf(mix_info.mix) - 1000) <= 1

---------------------------------------------------------------------------
(* ColorConverter and ColorMixer.  A channel normalised to 0-1 is its
   numerator over 255; a percentage rounded to one decimal is in tenths. *)

\* spacing of the sampled RGB channel values
ChanStep == 51

ChannelInputs ==
    {i * ChanStep : i \in 0..(255 \div ChanStep)} \cup {-10, 1, 15, 16, 128, 200, 255, 300}

RgbInputs == ChannelInputs \X ChannelInputs \X ChannelInputs

\* max(0, min(255, int(v)))
Clamp255(v) == Max(0, Min(255, v))

ClampRgb(rgb) == <<Clamp255(rgb[1]), Clamp255(rgb[2]), Clamp255(rgb[3])>>

HexDigits == <<"0", "1", "2", "3", "4", "5", "6", "7", "8", "9", "A", "B", "C", "D", "E", "F">>

\* (mutant) f"{v:X}": no zero padding
HexX(v) ==
    IF v < 16 THEN <<HexDigits[v + 1]>>
    ELSE <<HexDigits[(v \div 16) + 1], HexDigits[(v % 16) + 1]>>

\* f"{v:02X}"
Hex02X(v) == <<HexDigits[(v \div 16) + 1], HexDigits[(v % 16) + 1]>>

\* ColorConverter.rgb_to_hex
RgbToHex(rgb) ==
    <<"#">> \o Hex02X(Clamp255(rgb[1])) \o Hex02X(Clamp255(rgb[2])) \o Hex02X(Clamp255(rgb[3]))

\* a float division num / den, then * 100 and round(.., 1): tenths of a percent,
\* or the ZeroDivisionError Python raises
PercentOf(num, den, up) ==
    IF den = 0 THEN [error |-> "ZeroDivisionError", v |-> 0]
    ELSE [error |-> "none", v |-> RoundDiv(1000 * num, den, up)]

\* (1.0 - x_norm - k) / (1.0 - k) if (1.0 - k) > 0 else 0.0, clamped to [0, 1],
\* as a percentage; xn and kn are numerators over 255
CmykChannel(xn, kn, up) ==
    IF 255 - kn > 0
    THEN PercentOf(Max(0, Min(255 - kn, 255 - xn - kn)), 255 - kn, up)
    ELSE [error |-> "none", v |-> 0]

\* (mutant) k taken from the smallest channel
KNumeratorOfMin(rgb) == 255 - SetMin({Clamp255(rgb[1]), Clamp255(rgb[2]), Clamp255(rgb[3])})

\* k = 1.0 - max(r_norm, g_norm, b_norm), as a numerator over 255
KNumerator(rgb) == 255 - SetMax({Clamp255(rgb[1]), Clamp255(rgb[2]), Clamp255(rgb[3])})

\* ColorConverter.rgb_to_cmyk; ties[i] is the direction of the i-th rounding
RgbToCmyk(rgb, ties) ==
    LET kn == KNumerator(rgb)
        c == CmykChannel(Clamp255(rgb[1]), kn, ties[1])
        m == CmykChannel(Clamp255(rgb[2]), kn, ties[2])
        y == CmykChannel(Clamp255(rgb[3]), kn, ties[3])
        k == PercentOf(kn, 255, ties[4])
    IN  IF kn = 255
        THEN [error |-> "none", c |-> 0, m |-> 0, y |-> 0, k |-> 1000]
        ELSE IF c.error # "none" \/ m.error # "none" \/ y.error # "none" \/ k.error # "none"
        THEN [error |-> "ZeroDivisionError", c |-> 0, m |-> 0, y |-> 0, k |-> 0]
        ELSE [error |-> "none", c |-> c.v, m |-> m.v, y |-> y.v, k |-> k.v]

\* round((v / 255.0) * 100, 1)
ChannelPct(v, up) == RoundDiv(1000 * v, 255, up)

\* ColorMixer.get_primary_mix
GetPrimaryMix(rgb, ties) ==
    LET r == Clamp255(rgb[1])
        g == Clamp255(rgb[2])
        b == Clamp255(rgb[3])
    IN  [rgb |-> <<r, g, b>>, red |-> r, green |-> g, blue |-> b,
         red_pct |-> ChannelPct(r, ties[1]),
         green_pct |-> ChannelPct(g, ties[2]),
         blue_pct |-> ChannelPct(b, ties[3])]

\* (mutant) the saturation divisor without the lightness term: 1.0 - max_val
SaturationDivisorOfMax(mx, mn) == 255 - mx

\* 1.0 - abs(2.0 * l - 1.0) with l = (max_val + min_val) / 2.0, as a numerator
\* over 255
SaturationDivisor(mx, mn) == 255 - Abs(mx + mn - 255)

\* s * 100.0 rounded to one decimal, in tenths: 0.0 when delta == 0
Saturation(mx, mn, up) ==
    IF mx - mn = 0 THEN [error |-> "none", v |-> 0]
    ELSE PercentOf(mx - mn, SaturationDivisor(mx, mn), up)

\* the hue in degrees before rounding, as a numerator over delta = mx - mn;
\* Python's float % 6 has the sign of the divisor
HueNumerator(r, g, b) ==
    LET mx == SetMax({r, g, b})
        delta == mx - SetMin({r, g, b})
        h == IF mx = r THEN 60 * ((g - b) % (6 * delta))
             ELSE IF mx = g THEN 60 * ((b - r) + 2 * delta)
             ELSE 60 * ((r - g) + 4 * delta)
    IN  IF h < 0 THEN h + 360 * delta ELSE h

\* round(h, 1), in tenths of a degree: 0.0 when delta == 0
Hue(r, g, b, up) ==
    IF SetMax({r, g, b}) = SetMin({r, g, b}) THEN 0
    ELSE RoundDiv(10 * HueNumerator(r, g, b), SetMax({r, g, b}) - SetMin({r, g, b}), up)

\* ColorConverter.rgb_to_hsl; ties[i] is the direction of the i-th rounding
RgbToHsl(rgb, ties) ==
    LET r == Clamp255(rgb[1])
        g == Clamp255(rgb[2])
        b == Clamp255(rgb[3])
        mx == SetMax({r, g, b})
        mn == SetMin({r, g, b})
        s == Saturation(mx, mn, ties[2])
    IN  IF s.error # "none"
        THEN [error |-> "ZeroDivisionError", h |-> 0, s |-> 0, l |-> 0]
        ELSE [error |-> "none",
              h |-> Hue(r, g, b, ties[1]),
              s |-> s.v,
              l |-> RoundDiv(1000 * (mx + mn), 510, ties[3])]

\* ColorConverter.get_industry_standards, given what rgb_to_cmyk and rgb_to_hsl
\* returned: rgb and rgb_pct are taken from the arguments as given, hex, cmyk
\* and hsl from the conversions (which clamp)
GetIndustryStandards(rgb, cmyk, hsl, up) ==
    [rgb |-> <<rgb[1], rgb[2], rgb[3]>>,
     hex |-> RgbToHex(rgb),
     cmyk |-> cmyk,
     hsl |-> hsl,
     rgb_pct |-> [r |-> ChannelPct(rgb[1], up),
                  g |-> ChannelPct(rgb[2], up),
                  b |-> ChannelPct(rgb[3], up)]]

Ties == [1..4 -> BOOLEAN]

Returned(v) == [called |-> TRUE, value |-> v]

RgbToHexCall ==
    /\ conv_op = "none"
    /\ conv_op' = "rgb_to_hex"
    /\ conv_out' = Returned(RgbToHex(rgb_in))
    /\ UNCHANGED rgb_in
    /\ UNCHANGED exceptConv

RgbToCmykCall ==
    /\ conv_op = "none"
    /\ conv_op' = "rgb_to_cmyk"
    /\ \E ties \in Ties : conv_out' = Returned(RgbToCmyk(rgb_in, ties))
    /\ UNCHANGED rgb_in
    /\ UNCHANGED exceptConv

GetPrimaryMixCall ==
    /\ conv_op = "none"
    /\ conv_op' = "get_primary_mix"
    /\ \E ties \in Ties : conv_out' = Returned(GetPrimaryMix(rgb_in, ties))
    /\ UNCHANGED rgb_in
    /\ UNCHANGED exceptConv

RgbToHslCall ==
    /\ conv_op = "none"
    /\ conv_op' = "rgb_to_hsl"
    /\ \E ties \in Ties : conv_out' = Returned(RgbToHsl(rgb_in, ties))
    /\ UNCHANGED rgb_in
    /\ UNCHANGED exceptConv

GetIndustryStandardsCall ==
    /\ conv_op = "none"
    /\ conv_op' = "get_industry_standards"
    /\ \E cmyk \in {RgbToCmyk(rgb_in, ties) : ties \in Ties},
          hsl \in {RgbToHsl(rgb_in, ties) : ties \in Ties},
          up \in BOOLEAN :
          conv_out' = Returned(GetIndustryStandards(rgb_in, cmyk, hsl, up))
    /\ UNCHANGED rgb_in
    /\ UNCHANGED exceptConv

ConvInit ==
    /\ rgb_in \in RgbInputs
    /\ conv_op = "none"
    /\ conv_out = NoCall
    /\ QuantIdle /\ MixIdle /\ InvIdle /\ DimIdle /\ FileIdle /\ MainIdle

ConvNext ==
    \/ RgbToHexCall
    \/ RgbToCmykCall
    \/ GetPrimaryMixCall
    \/ RgbToHslCall
    \/ GetIndustryStandardsCall

SpecConv == ConvInit /\ [][ConvNext]_vars

\* v tenths of a percent is 100 * num / den rounded to one decimal
IsRoundedPercent(v, num, den) == 2 * Abs(v * den - 1000 * num) <= den

(* C5: rgb_to_cmyk never divides by zero; with the channels clamped to
   [0,255], k is 1 - max/255 and c, m, y are (1 - channel/255 - k)/(1 - k),
   each a percentage in [0,100] rounded to one decimal; the result is
   (0,0,0,100) exactly when the clamped colour is black; white gives
   (0,0,0,0), black (0,0,0,100) and pure red (0,100,100,0). *)
C5_CmykFormula ==
    conv_op = "rgb_to_cmyk" =>
        LET out == conv_out.value
            cl == ClampRgb(rgb_in)
            mx == SetMax({cl[1], cl[2], cl[3]})
            kn == 255 - mx
        IN  /\ out.error = "none"
            /\ \A v \in {out.c, out.m, out.y, out.k} : v \in 0..1000
            /\ IsRoundedPercent(out.k, kn, 255)
            /\ (<<out.c, out.m, out.y, out.k>> = <<0, 0, 0, 1000>>) <=> (cl = <<0, 0, 0>>)
            /\ mx > 0 =>
                  /\ IsRoundedPercent(out.c, 255 - cl[1] - kn, 255 - kn)
                  /\ IsRoundedPercent(out.m, 255 - cl[2] - kn, 255 - kn)
                  /\ IsRoundedPercent(out.y, 255 - cl[3] - kn, 255 - kn)
            /\ cl = <<255, 255, 255>> => <<out.c, out.m, out.y, out.k>> = <<0, 0, 0, 0>>
            /\ cl = <<255, 0, 0>> => <<out.c, out.m, out.y, out.k>> = <<0, 1000, 1000, 0>>

\* an out-of-range colour was converted: (300, -10, 128) clamps to (255, 0, 128)
C5_Witness ==
    /\ conv_op = "rgb_to_cmyk"
    /\ rgb_in = <<300, -10, 128>>
    /\ conv_out.value.c = 0
    /\ conv_out.value.m = 1000
    /\ conv_out.value.y = 498
    /\ conv_out.value.k = 0

(* C7: get_primary_mix returns a record with the keys rgb, hex, cmyk and hsl,
   rgb being the triple clamped to [0,255] and hex its #RRGGBB code. *)
C7_PrimaryMixKeys ==
    conv_op = "get_primary_mix" =>
        /\ {"rgb", "hex", "cmyk", "hsl"} \subseteq DOMAIN conv_out.value
        /\ conv_out.value.rgb = ClampRgb(rgb_in)
        /\ conv_out.value.hex = RgbToHex(ClampRgb(rgb_in))

---------------------------------------------------------------------------
(* PaintColorInventory.  color_counts is the dict in insertion order: a
   sequence of [key, count]. *)

\* the largest number of add_color calls on one inventory
MaxAdds == 4

\* the position of key in the dict, 0 when absent
RECURSIVE KeyIndex(_, _, _)
KeyIndex(counts, key, i) ==
    IF i > Len(counts) THEN 0
    ELSE IF counts[i].key = key THEN i
    ELSE KeyIndex(counts, key, i + 1)

\* self.color_counts[color_key] += 1 on a defaultdict(int)
Increment(counts, key) ==
    LET i == KeyIndex(counts, key, 1)
    IN  IF i = 0 THEN Append(counts, [key |-> key, count |-> 1])
        ELSE [counts EXCEPT ![i].count = @ + 1]

\* from_matrix: add_color for every cell, row by row
RECURSIVE AddAll(_, _)
AddAll(counts, px) ==
    IF Len(px) = 0 THEN counts ELSE AddAll(Increment(counts, px[1]), Tail(px))

\* Python's list comparison x['rgb'] < y['rgb']
RgbLess(a, b) ==
    \/ a[1] < b[1]
    \/ a[1] = b[1] /\ a[2] < b[2]
    \/ a[1] = b[1] /\ a[2] = b[2] /\ a[3] < b[3]

\* (mutant) the count is not negated: the least used colour comes first
PaintKeyLessAscending(a, b) ==
    \/ a.count < b.count
    \/ a.count = b.count /\ RgbLess(a.rgb, b.rgb)

\* the sort key (-x['count'], x['rgb']) of a is below that of b
PaintKeyLess(a, b) ==
    \/ (0 - a.count) < (0 - b.count)
    \/ a.count = b.count /\ RgbLess(a.rgb, b.rgb)

\* list.sort is stable: p goes behind every entry whose key is not above its own
RECURSIVE InsertSorted(_, _)
InsertSorted(sorted, p) ==
    IF Len(sorted) = 0 THEN <<p>>
    ELSE IF PaintKeyLess(p, sorted[1]) THEN <<p>> \o sorted
    ELSE <<sorted[1]>> \o InsertSorted(Tail(sorted), p)

RECURSIVE SortPaints(_, _)
SortPaints(sorted, rest) ==
    IF Len(rest) = 0 THEN sorted
    ELSE SortPaints(InsertSorted(sorted, rest[1]), Tail(rest))

\* one entry of get_required_paints
PaintOf(e, up) ==
    LET total == e.key[1] + e.key[2] + e.key[3]
    IN  [rgb |-> e.key, red |-> e.key[1], green |-> e.key[2], blue |-> e.key[3],
         count |-> e.count,
         red_pct |-> IF total > 0 THEN ChannelPct(e.key[1], up) ELSE 0,
         green_pct |-> IF total > 0 THEN ChannelPct(e.key[2], up) ELSE 0,
         blue_pct |-> IF total > 0 THEN ChannelPct(e.key[3], up) ELSE 0]

RequiredPaints(counts, up) ==
    SortPaints(<<>>, [i \in 1..Len(counts) |-> PaintOf(counts[i], up)])

AddColor(c) ==
    /\ Len(add_log) < MaxAdds
    /\ color_counts' = Increment(color_counts, c)
    /\ add_log' = Append(add_log, c)
    /\ UNCHANGED paints
    /\ UNCHANGED exceptInv

\* PaintColorInventory.from_matrix: a fresh inventory filled from the matrix
FromMatrix(m) ==
    /\ Len(add_log) = 0
    /\ ~paints.called
    /\ Len(m.px) <= MaxAdds
    /\ color_counts' = AddAll(<<>>, m.px)
    /\ add_log' = m.px
    /\ paints' = NoCall
    /\ UNCHANGED exceptInv

\* get_required_paints reads self.color_counts and writes nothing to it
CountsAfterListing(counts) == counts

GetRequiredPaints ==
    /\ color_counts' = CountsAfterListing(color_counts)
    /\ \E up \in BOOLEAN :
           paints' = [called |-> TRUE, list |-> RequiredPaints(color_counts, up),
                      counts_before |-> color_counts, counts_after |-> color_counts']
    /\ UNCHANGED add_log
    /\ UNCHANGED exceptInv

InvInit ==
    /\ InvIdle
    /\ QuantIdle /\ MixIdle /\ ConvIdle /\ DimIdle /\ FileIdle /\ MainIdle

InvNext ==
    \/ \E c \in Colors : AddColor(c)
    \/ \E m \in Matrices : FromMatrix(m)
    \/ GetRequiredPaints

SpecInv == InvInit /\ [][InvNext]_vars

\* get_required_paints listed an inventory with a tie among its counts
C6_Witness ==
    /\ paints.called
    /\ Len(paints.list) = 3
    /\ paints.list[1].count = 2
    /\ paints.list[2].count = 1
    /\ paints.list[3].count = 1
    /\ paints.counts_before[1].key = paints.list[3].rgb
    /\ Len(add_log) = 4

\* how often colour c was handed to add_color
TimesAdded(c) == Cardinality({i \in 1..Len(add_log) : add_log[i] = c})

(* C6: the inventory holds exactly one entry per distinct colour added, each
   with a count equal to the number of times that colour was added (so every
   count is >= 1 and the counts sum to the number of calls), and
   get_required_paints lists these entries by descending count, ties by
   ascending (r,g,b), without changing any count. *)
C6_InventoryCounts ==
    /\ \A i, j \in 1..Len(color_counts) : i # j => color_counts[i].key # color_counts[j].key
    /\ {color_counts[i].key : i \in 1..Len(color_counts)} = SeqRange(add_log)
    /\ \A i \in 1..Len(color_counts) :
          /\ color_counts[i].count = TimesAdded(color_counts[i].key)
          /\ color_counts[i].count >= 1
    /\ SeqSum([i \in 1..Len(color_counts) |-> color_counts[i].count]) = Len(add_log)
    /\ paints.called =>
          /\ paints.counts_after = paints.counts_before
          /\ Len(paints.list) = Len(paints.counts_before)
          /\ \A e \in SeqRange(paints.counts_before) :
                \E i \in 1..Len(paints.list) :
                    paints.list[i].rgb = e.key /\ paints.list[i].count = e.count
          /\ \A i, j \in 1..Len(paints.list) :
                i < j =>
                    \/ paints.list[i].count > paints.list[j].count
                    \/ /\ paints.list[i].count = paints.list[j].count
                       /\ RgbLess(paints.list[i].rgb, paints.list[j].rgb)

---------------------------------------------------------------------------
(* MatrixGenerator: dimensions.  Lengths in centimetres are exact rationals;
   the four numbers calculate_dimensions_preserving_aspect_ratio returns are
   numerators over den = orig_width * orig_height. *)

\* the largest sampled image side, in pixels
MaxImg == 4
\* the largest sampled requested side, in centimetres
MaxReq == 5

ImageSizes == ((1..MaxImg) \X (1..MaxImg)) \cup {<<200, 100>>}

RequestValues == ((0 - 1)..MaxReq) \cup {50, 150, 200}

DimInputs ==
    {[orig_width |-> sz[1], orig_height |-> sz[2], width |-> w, height |-> h] :
        sz \in ImageSizes, w \in RequestValues, h \in RequestValues}

\* (mutant) a tie between the two options goes to the fit-to-height option
PreferOption1Strict(option1_total_diff, option2_total_diff) ==
    option1_total_diff < option2_total_diff

\* (mutant) the comparison the other way round
PreferOption1Reversed(option1_total_diff, option2_total_diff) ==
    option2_total_diff <= option1_total_diff

\* if option1_total_diff <= option2_total_diff
PreferOption1(option1_total_diff, option2_total_diff) ==
    option1_total_diff <= option2_total_diff

\* MatrixGenerator.calculate_dimensions_preserving_aspect_ratio
PreservingAspectRatio(in) ==
    LET ow == in.orig_width
        oh == in.orig_height
        den == ow * oh
        requested_width == in.width * den
        requested_height == in.height * den
        \* option 1: fit to requested width; height = width / (ow / oh)
        option1_width == requested_width
        option1_height == in.width * oh * oh
        option1_width_diff == Abs(option1_width - requested_width)
        option1_height_diff == Abs(option1_height - requested_height)
        option1_total_diff == option1_width_diff + option1_height_diff
        \* option 2: fit to requested height; width = height * (ow / oh)
        option2_width == in.height * ow * ow
        option2_height == requested_height
        option2_width_diff == Abs(option2_width - requested_width)
        option2_height_diff == Abs(option2_height - requested_height)
        option2_total_diff == option2_width_diff + option2_height_diff
    IN  IF PreferOption1(option1_total_diff, option2_total_diff)
        THEN [called |-> TRUE, den |-> den, option |-> 1,
              option1_total_diff |-> option1_total_diff,
              option2_total_diff |-> option2_total_diff,
              width |-> option1_width, height |-> option1_height,
              width_diff |-> option1_width_diff, height_diff |-> option1_height_diff]
        ELSE [called |-> TRUE, den |-> den, option |-> 2,
              option1_total_diff |-> option1_total_diff,
              option2_total_diff |-> option2_total_diff,
              width |-> option2_width, height |-> option2_height,
              width_diff |-> option2_width_diff, height_diff |-> option2_height_diff]

\* (mutant) the quotient rounded up instead of truncated
CeilDiv(num, den) == 0 - ((0 - num) \div den)

\* int(x) of the float num / den, den > 0: truncation towards zero
TruncDiv(num, den) == IF num >= 0 THEN num \div den ELSE 0 - ((0 - num) \div den)

\* MatrixGenerator.calculate_matrix_dimensions: (rows, columns); the output
\* size is num / den centimetres and the tile size tile10 / 10 centimetres
CalculateMatrixDimensions(width_num, height_num, den, tile10) ==
    <<TruncDiv(height_num * 10, den * tile10), TruncDiv(width_num * 10, den * tile10)>>

CalculateDimensions ==
    /\ ~dim_out.called
    /\ dim_out' = PreservingAspectRatio(dim_in)
    /\ UNCHANGED <<dim_in, gpc, gen_in, gen_out>>
    /\ UNCHANGED exceptDim

DimInit ==
    /\ dim_in \in DimInputs
    /\ dim_out = NoCall
    /\ GenIdle
    /\ QuantIdle /\ MixIdle /\ ConvIdle /\ InvIdle /\ FileIdle /\ MainIdle

DimNext == CalculateDimensions

SpecDims == DimInit /\ [][DimNext]_vars

(* C4: for every source aspect ratio a = width/height and every positive
   request (W, H), the result is Candidate A = (W, W/a) when
   |W/a - H| <= |H*a - W| and Candidate B = (H*a, H) otherwise, so
   width_out / height_out = a, and the two deltas are |width_out - W| and
   |height_out - H|; a 200x100 source with request (200,150) gives (200,100)
   with deltas (0,50). *)
C4_ClosestCandidate ==
    (dim_out.called /\ dim_in.width > 0 /\ dim_in.height > 0) =>
        LET ow == dim_in.orig_width
            oh == dim_in.orig_height
            W == dim_in.width
            H == dim_in.height
            d == dim_out.den
            \* |W/a - H| <= |H*a - W|, multiplied by ow * oh
            fitWidth == Abs(W * oh - H * ow) * oh <= Abs(H * ow - W * oh) * ow
        IN  /\ d = ow * oh
            /\ fitWidth => dim_out.width = W * d /\ dim_out.height * ow = W * oh * d
            /\ ~fitWidth => dim_out.height = H * d /\ dim_out.width * oh = H * ow * d
            /\ dim_out.width * oh = dim_out.height * ow
            /\ dim_out.width_diff = Abs(dim_out.width - W * d)
            /\ dim_out.height_diff = Abs(dim_out.height - H * d)
            /\ (ow = 200 /\ oh = 100 /\ W = 200 /\ H = 150) =>
                  /\ dim_out.width = 200 * d
                  /\ dim_out.height = 100 * d
                  /\ dim_out.width_diff = 0
                  /\ dim_out.height_diff = 50 * d

\* the 200x100 source with request (200,150) was resolved
C4_Witness ==
    /\ dim_out.called
    /\ dim_in = [orig_width |-> 200, orig_height |-> 100, width |-> 200, height |-> 150]
    /\ dim_out.option = 1
    /\ dim_out.height_diff = 50 * dim_out.den

---------------------------------------------------------------------------
(* file_handler: save_matrix_to_file and save_matrix_to_json.  A text file is
   the sequence of its lines; a line is a record, a cell row the sequence of
   the pieces written to it. *)

\* arrays of shape (rows, 0, 3), next to the matrices with cells
EmptyRowMatrices == {[rows |-> r, cols |-> 0, px |-> <<>>] : r \in 1..MaxPixels}

FileMatrices == Matrices \cup EmptyRowMatrices

\* the cells of row i (1-based) in column order
RowOf(m, i) == [j \in 1..m.cols |-> m.px[(i - 1) * m.cols + j]]

\* ColorBaseSelector.PRIMARY_COLORS, in dict order; percentages
PRIMARY_COLORS ==
    << [name |-> "cyan",    cmyk |-> [c |-> 100, m |-> 0, y |-> 0, k |-> 0]],
       [name |-> "magenta", cmyk |-> [c |-> 0, m |-> 100, y |-> 0, k |-> 0]],
       [name |-> "yellow",  cmyk |-> [c |-> 0, m |-> 0, y |-> 100, k |-> 0]],
       [name |-> "black",   cmyk |-> [c |-> 0, m |-> 0, y |-> 0, k |-> 100]],
       [name |-> "white",   cmyk |-> [c |-> 0, m |-> 0, y |-> 0, k |-> 0]] >>

\* (mutant) the channel without the black component
CmykToRgbChannelNoK(x, k) == Clamp255(TruncDiv(255 * (100 - Min(100, x)), 100))

\* int(255 * (1 - min(1, x_norm + k_norm))), clamped to [0, 255]
CmykToRgbChannel(x, k) == Clamp255(TruncDiv(255 * (100 - Min(100, x + k)), 100))

\* ColorBaseSelector.cmyk_to_rgb
CmykToRgb(cmyk) ==
    <<CmykToRgbChannel(cmyk.c, cmyk.k), CmykToRgbChannel(cmyk.m, cmyk.k),
      CmykToRgbChannel(cmyk.y, cmyk.k)>>

\* ColorBaseSelector.select_base_colors: the five primaries, whatever the matrix
SelectBaseColors(m) ==
    [i \in 1..Len(PRIMARY_COLORS) |->
        [name |-> PRIMARY_COLORS[i].name,
         rgb |-> CmykToRgb(PRIMARY_COLORS[i].cmyk),
         hex |-> RgbToHex(CmykToRgb(PRIMARY_COLORS[i].cmyk)),
         cmyk |-> PRIMARY_COLORS[i].cmyk,
         purchase |-> TRUE]]

\* str.upper() on the names of the primaries
Upper(name) ==
    CASE name = "cyan" -> "CYAN"
      [] name = "magenta" -> "MAGENTA"
      [] name = "yellow" -> "YELLOW"
      [] name = "black" -> "BLACK"
      [] name = "white" -> "WHITE"

\* lines 28-30
HeaderLines(m) ==
    << [kind |-> "comment", text |-> "# RGB Color Matrix with Paint Mixing Instructions"],
       [kind |-> "dimensions", rows |-> m.rows, columns |-> m.cols],
       [kind |-> "comment", text |-> "# Format: R,G,B[CMYK] #HEX {mix_instruction}"],
       [kind |-> "blank"] >>

\* lines 33-38
BaseColorLines(base_colors) ==
    << [kind |-> "comment", text |-> "# BASE COLORS TO PURCHASE:"] >>
    \o [i \in 1..Len(base_colors) |->
          [kind |-> "base", name |-> Upper(base_colors[i].name), rgb |-> base_colors[i].rgb,
           hex |-> base_colors[i].hex, cmyk |-> base_colors[i].cmyk]]
    \o << [kind |-> "blank"] >>

RowComment(i) == [kind |-> "row_comment", row |-> i]

\* lines 45-53: the token of one cell, or the KeyError of lines 46-47.  The
\* cmyk dict holds tenths of a percent, calculate_mix_instructions works in
\* hundredths.
CellToken(rgb, ties, up, mties) ==
    LET color_info == GetPrimaryMix(rgb, ties)
    IN  IF "cmyk" \notin DOMAIN color_info
        THEN [error |-> "KeyError: 'cmyk'"]
        ELSE IF "hex" \notin DOMAIN color_info
        THEN [error |-> "KeyError: 'hex'"]
        ELSE LET cmyk == color_info.cmyk
                 target == [c |-> cmyk.c * 10, m |-> cmyk.m * 10,
                            y |-> cmyk.y * 10, k |-> cmyk.k * 10]
             IN  [error |-> "none", kind |-> "token", rgb |-> rgb, cmyk |-> cmyk,
                  hex |-> color_info.hex,
                  mix |-> MixInstructions(target, up, mties).instruction]

Space == [kind |-> " "]

\* lines 43-56: the pieces written for the cells j.. of one row, up to the first
\* exception
RECURSIVE WriteCells(_, _, _, _, _, _)
WriteCells(row, j, pieces, ties, up, mties) ==
    IF j > Len(row) THEN [error |-> "none", pieces |-> pieces]
    ELSE LET token == CellToken(row[j], ties, up, mties)
         IN  IF token.error # "none"
             THEN [error |-> token.error, pieces |-> pieces]
             ELSE WriteCells(row, j + 1,
                             pieces \o <<token>> \o (IF j < Len(row) THEN <<Space>> ELSE <<>>),
                             ties, up, mties)

\* lines 41-57: rows i.. of the matrix; an exception leaves the file with what
\* was written before it
RECURSIVE WriteRows(_, _, _, _, _, _)
WriteRows(m, i, lines, ties, up, mties) ==
    IF i > m.rows THEN [called |-> TRUE, error |-> "none", lines |-> lines]
    ELSE LET cells == WriteCells(RowOf(m, i), 1, <<>>, ties, up, mties)
         IN  IF cells.error # "none"
             THEN [called |-> TRUE, error |-> cells.error,
                   lines |-> lines \o <<RowComment(i)>>
                             \o (IF Len(cells.pieces) > 0
                                 THEN <<[kind |-> "partial", pieces |-> cells.pieces]>>
                                 ELSE <<>>)]
             ELSE WriteRows(m, i + 1,
                            lines \o <<RowComment(i), [kind |-> "cells", pieces |-> cells.pieces]>>,
                            ties, up, mties)

\* save_matrix_to_file(matrix, output_path) with base_colors = None
SaveMatrixToFile(m, ties, up, mties) ==
    WriteRows(m, 1, HeaderLines(m) \o BaseColorLines(SelectBaseColors(m)), ties, up, mties)

\* save_matrix_to_json: the data handed to json.dump
SaveMatrixToJson(m, ties) ==
    [called |-> TRUE, error |-> "none",
     dimensions |-> [rows |-> m.rows, columns |-> m.cols],
     matrix |-> [i \in 1..m.rows |->
                    [j \in 1..m.cols |-> GetPrimaryMix(RowOf(m, i)[j], ties)]]]

\* the directions of the roundings of one call: round(x, 1) of a float that
\* sits on a tie goes either way
MixTies == [1..5 -> BOOLEAN]

SaveMatrixToFileCall(m) ==
    /\ file_op = "none"
    /\ file_op' = "save_matrix_to_file"
    /\ file_matrix' = m
    /\ \E up \in BOOLEAN, ties \in MixTies :
           file_out' = SaveMatrixToFile(m, ties, up, ties)
    /\ UNCHANGED exceptFile

SaveMatrixToJsonCall(m) ==
    /\ file_op = "none"
    /\ file_op' = "save_matrix_to_json"
    /\ file_matrix' = m
    /\ \E ties \in Ties : file_out' = SaveMatrixToJson(m, ties)
    /\ UNCHANGED exceptFile

SelectBaseColorsCall(m) ==
    /\ file_op = "none"
    /\ file_op' = "select_base_colors"
    /\ file_matrix' = m
    /\ file_out' = Returned(SelectBaseColors(m))
    /\ UNCHANGED exceptFile

FileInit ==
    /\ FileIdle
    /\ QuantIdle /\ MixIdle /\ ConvIdle /\ InvIdle /\ DimIdle /\ MainIdle

FileNext ==
    \/ \E m \in FileMatrices : SaveMatrixToFileCall(m)
    \/ \E m \in FileMatrices : SaveMatrixToJsonCall(m)
    \/ \E m \in FileMatrices : SelectBaseColorsCall(m)

SpecFile == FileInit /\ [][FileNext]_vars

\* the lines after the header and the base colours
BodyLines(lines) == SubSeq(lines, Len(HeaderLines(NoMatrix)) + Len(PRIMARY_COLORS) + 3, Len(lines))

\* a row line of exactly n cell tokens, consecutive ones separated by one space
IsCellLine(line, row) ==
    /\ line.kind = "cells"
    /\ Len(line.pieces) = 2 * Len(row) - 1
    /\ \A p \in 1..Len(line.pieces) :
          IF p % 2 = 1
          THEN /\ line.pieces[p].kind = "token"
               /\ line.pieces[p].rgb = row[(p + 1) \div 2]
               /\ DOMAIN line.pieces[p] = {"error", "kind", "rgb", "cmyk", "hex", "mix"}
          ELSE line.pieces[p] = Space

(* C8: for every matrix with R >= 1 rows and C >= 1 columns,
   save_matrix_to_file completes without error and writes, after the header,
   for each row i = 1..R in order a '# Row i' comment line followed by one
   line of exactly C cell tokens 'R,G,B[C:c%,M:m%,Y:y%,K:k%] #HEX {Mix: ...}'
   in column order, consecutive tokens separated by one space. *)
C8_TextFileRows ==
    (file_op = "save_matrix_to_file" /\ file_matrix.rows >= 1 /\ file_matrix.cols >= 1) =>
        /\ file_out.error = "none"
        /\ LET body == BodyLines(file_out.lines)
           IN  /\ Len(body) = 2 * file_matrix.rows
               /\ \A i \in 1..file_matrix.rows :
                     /\ body[2 * i - 1] = RowComment(i)
                     /\ IsCellLine(body[2 * i], RowOf(file_matrix, i))

---------------------------------------------------------------------------
(* main.py: the pipeline.  mpc is the position of main, menv what it has
   learnt from the command line and the file system, mstate its locals, outputs
   the lines it printed, exit_code the exit status of the process. *)

\* TILE_SIZE_CM = 2.0, in tenths of a centimetre
TILE_SIZE_CM == 20

\* the largest width or height given to main, in centimetres
MaxArg == 2

\* the largest number of image files in the input directory
MaxFiles == 2

\* --tile-size, in tenths of a centimetre (argparse default TILE_SIZE_CM)
TileArgs == {0, 10, TILE_SIZE_CM}

NoArg == [given |-> FALSE, v |-> 0]

Arg(x) == [given |-> TRUE, v |-> x]

\* --width / --height: absent or a float
SizeArgs == {NoArg} \cup {Arg(x) : x \in (0 - 1)..MaxArg}

\* what the user types at the three prompts: numbers (the tile size possibly
\* empty), something float() rejects, or Ctrl-C
TypedInputs ==
    {[kind |-> k, width |-> 0, height |-> 0, tile |-> NoArg] :
        k \in {"ValueError", "KeyboardInterrupt"}}
    \cup {[kind |-> "numbers", width |-> w, height |-> h, tile |-> t] :
            w \in 0..MaxArg, h \in 1..MaxArg, t \in {NoArg, Arg(0), Arg(10)}}

EnvUnknown ==
    [tile_size |-> TILE_SIZE_CM, width |-> NoArg, height |-> NoArg,
     dir_exists |-> FALSE, files |-> 0, loaded |-> FALSE]

NoLocals ==
    [image_size |-> <<0, 0>>, have_input |-> FALSE, width_cm |-> 0, height_cm |-> 0,
     tile_size_cm |-> 0, shape |-> <<0, 0>>, stages |-> <<>>, error |-> "none"]

\* sys.exit(code) / return from main
Exit(code, printed) ==
    /\ mpc' = "done"
    /\ exit_code' = code
    /\ outputs' = outputs \o printed

\* lines 78-94
ParseArgs ==
    /\ mpc = "parse_args"
    /\ \E t \in TileArgs, w \in SizeArgs, h \in SizeArgs :
          /\ menv' = [menv EXCEPT !.tile_size = t, !.width = w, !.height = h]
          /\ IF t <= 0
             THEN Exit("1", <<"Error: Tile size must be a positive number.">>)
             ELSE /\ mpc' = "check_input_dir"
                  /\ UNCHANGED <<outputs, exit_code>>
    /\ UNCHANGED mstate
    /\ UNCHANGED exceptMain

\* lines 97-102
CheckInputDir ==
    /\ mpc = "check_input_dir"
    /\ \E exists \in BOOLEAN :
          /\ menv' = [menv EXCEPT !.dir_exists = TRUE]
          /\ IF ~exists
             THEN Exit("0", <<"Created input directory: input",
                              "Please place image files in the 'input' directory and run again.">>)
             ELSE /\ mpc' = "get_image_files"
                  /\ UNCHANGED <<outputs, exit_code>>
    /\ UNCHANGED mstate
    /\ UNCHANGED exceptMain

\* lines 105-119
GetImageFiles ==
    /\ mpc = "get_image_files"
    /\ \E n \in 0..MaxFiles :
          /\ menv' = [menv EXCEPT !.files = n]
          /\ IF n = 0
             THEN Exit("0", <<"No image files found in the 'input' directory.",
                              "Supported formats: JPG, JPEG, PNG, BMP, GIF, TIFF, WEBP">>)
             ELSE /\ mpc' = "load_image"
                  /\ outputs' = outputs \o <<"Found image file(s) in input directory:", "Processing:">>
                  /\ UNCHANGED exit_code
    /\ UNCHANGED mstate
    /\ UNCHANGED exceptMain

\* image.size of the first file of the input directory: (width, height) in pixels
MainImageSizes == {<<1, 1>>, <<2, 1>>, <<1, 2>>, <<3, 2>>, <<4, 4>>}

\* (mutant) main goes on to the prompts after a failed load
LoadImageContinues ==
    /\ mpc = "load_image"
    /\ \/ /\ menv' = menv
          /\ mstate' = mstate
          /\ mpc' = "get_user_input"
          /\ outputs' = outputs \o <<"Error loading image">>
          /\ UNCHANGED exit_code
       \/ \E sz \in MainImageSizes :
             /\ menv' = [menv EXCEPT !.loaded = TRUE]
             /\ mstate' = [mstate EXCEPT !.image_size = sz]
             /\ mpc' = "get_user_input"
             /\ UNCHANGED <<outputs, exit_code>>
    /\ UNCHANGED exceptMain

\* lines 122-125: load_image returns the image, or None when Image.open raises
LoadImage ==
    /\ mpc = "load_image"
    /\ \/ /\ menv' = menv
          /\ mstate' = mstate
          /\ Exit("0", <<"Error loading image", "Failed to load image.">>)
       \/ \E sz \in MainImageSizes :
             /\ menv' = [menv EXCEPT !.loaded = TRUE]
             /\ mstate' = [mstate EXCEPT !.image_size = sz]
             /\ mpc' = "get_user_input"
             /\ UNCHANGED <<outputs, exit_code>>
    /\ UNCHANGED exceptMain

\* get_user_input returned (width, height, tile_size)
GotInput(w, h, t) ==
    /\ mstate' = [mstate EXCEPT !.have_input = TRUE, !.width_cm = w, !.height_cm = h,
                                !.tile_size_cm = t]
    /\ mpc' = "generate_matrix"
    /\ outputs' = outputs \o <<"=== Mosaic Pixel Matrixator ===", "Processing image...">>
    /\ UNCHANGED exit_code

\* lines 128-137 and get_user_input, lines 14-63
GetUserInput ==
    /\ mpc = "get_user_input"
    /\ IF menv.width.given /\ menv.height.given
       THEN IF menv.width.v <= 0 \/ menv.height.v <= 0
            THEN /\ Exit("1", <<"=== Mosaic Pixel Matrixator ===",
                                "Error: Dimensions must be positive numbers.">>)
                 /\ mstate' = mstate
            ELSE GotInput(menv.width.v, menv.height.v,
                          IF menv.tile_size > 0 THEN menv.tile_size ELSE TILE_SIZE_CM)
       ELSE \E typed \in TypedInputs :
               CASE typed.kind = "ValueError" ->
                        /\ Exit("1", <<"=== Mosaic Pixel Matrixator ===",
                                       "Error: Please enter valid numbers.">>)
                        /\ mstate' = mstate
                 [] typed.kind = "KeyboardInterrupt" ->
                        /\ Exit("0", <<"=== Mosaic Pixel Matrixator ===",
                                       "Operation cancelled by user.">>)
                        /\ mstate' = mstate
                 [] typed.kind = "numbers" ->
                        IF typed.width <= 0 \/ typed.height <= 0
                        THEN /\ Exit("1", <<"=== Mosaic Pixel Matrixator ===",
                                            "Error: Dimensions must be positive numbers.">>)
                             /\ mstate' = mstate
                        ELSE IF typed.tile.given /\ typed.tile.v <= 0
                        THEN /\ Exit("1", <<"=== Mosaic Pixel Matrixator ===",
                                            "Error: Tile size must be a positive number.">>)
                             /\ mstate' = mstate
                        ELSE GotInput(typed.width, typed.height,
                                      IF typed.tile.given THEN typed.tile.v ELSE TILE_SIZE_CM)
    /\ UNCHANGED menv
    /\ UNCHANGED exceptMain


\* the targets of the assignment that unpacks generate_matrix's result:
\* matrix, (rows, cols), (actual_width_cm, actual_height_cm)
UnpackTargets == 3

\* generate_matrix: (rows, cols) of the matrix for an image and a request
MatrixShape(image_size, width_cm, height_cm, tile10) ==
    LET dims == PreservingAspectRatio([orig_width |-> image_size[1],
                                       orig_height |-> image_size[2],
                                       width |-> width_cm, height |-> height_cm])
    IN  CalculateMatrixDimensions(dims.width, dims.height, dims.den, tile10)

\* the colours the resampled image of generate_matrix is drawn from
GenColors == {SampleColors[1], SampleColors[5]}

\* image_to_array in main: the arrays of one shape that the resize may give
ArraysOf(shape) ==
    {m \in Matrices : /\ m.rows = shape[1]
                      /\ m.cols = shape[2]
                      /\ \A i \in 1..Len(m.px) : m.px[i] \in GenColors}

\* an exception inside the try block of main
Raise(error) ==
    /\ mpc' = "except"
    /\ mstate' = [mstate EXCEPT !.error = error]

\* lines 140-150 and generate_matrix up to quantize_matrix's split loop: the
\* resize to (cols, rows) raises for an empty size, and else the resampled
\* array is handed to a new ColorQuantizer(32)
GenerateMatrix ==
    /\ mpc = "generate_matrix"
    /\ qpc = "none"
    /\ outputs' = outputs \o <<"Original image:", "Requested dimensions:", "Tile size:">>
    /\ LET shape == MatrixShape(mstate.image_size, mstate.width_cm, mstate.height_cm,
                                mstate.tile_size_cm)
       IN  IF shape[1] <= 0 \/ shape[2] <= 0
           THEN /\ mpc' = "except"
                /\ mstate' = [mstate EXCEPT !.shape = shape,
                                            !.error = "ValueError: height and width must be > 0"]
                /\ UNCHANGED quantVars
           ELSE /\ shape[1] * shape[2] <= MaxPixels
                /\ \E arr \in ArraysOf(shape) :
                      /\ matrix' = arr
                      /\ boxes' = <<arr.px>>
                /\ num_colors_arg' = [given |-> FALSE, value |-> 0]
                /\ num_colors' = NumColorsOr([given |-> FALSE, value |-> 0])
                /\ palette' = NonePalette
                /\ qpc' = "split"
                /\ quantized' = quantized
                /\ calls' = calls
                /\ mpc' = "quantize_matrix"
                /\ mstate' = [mstate EXCEPT !.shape = shape]
    /\ UNCHANGED <<menv, exit_code>>
    /\ UNCHANGED <<mixVars, convVars, invVars, dimVars, fileVars>>

\* the four values generate_matrix returns
GenerateMatrixResult ==
    LET dims == PreservingAspectRatio([orig_width |-> mstate.image_size[1],
                                       orig_height |-> mstate.image_size[2],
                                       width |-> mstate.width_cm,
                                       height |-> mstate.height_cm])
    IN  << quantized, mstate.shape, <<dims.width, dims.height>>,
           <<dims.width_diff, dims.height_diff>> >>

\* lines 153-186: the rest of the try block once the result is unpacked
SaveOutputs(m, up, ties) ==
    LET txt == SaveMatrixToFile(m, ties, up, ties)
        json == SaveMatrixToJson(m, ties)
        info == <<"=== Processing Complete ===", "Matrix dimensions:", "Total tiles:",
                  "Tile size:", "Output dimensions:">>
    IN  IF txt.error # "none"
        THEN [error |-> txt.error, stages |-> <<"generate_matrix">>, printed |-> info]
        ELSE IF json.error # "none"
        THEN [error |-> json.error,
              stages |-> <<"generate_matrix", "save_matrix_to_file">>,
              printed |-> info \o <<"Matrix saved to: txt">>]
        ELSE [error |-> "none",
              stages |-> <<"generate_matrix", "save_matrix_to_file", "save_matrix_to_json",
                           "recreate_image_from_matrix">>,
              printed |-> info \o <<"Matrix saved to: txt", "Matrix saved to: json",
                                    "Preview image saved to:",
                                    "Processing completed successfully!">>]

\* lines 148-186: generate_matrix has returned (or raised) and main goes on
\* with the result
ProcessResult ==
    /\ mpc = "quantize_matrix"
    /\ qpc \in {"returned", "raised"}
    /\ IF qpc = "raised"
       THEN /\ Raise("ValueError")
            /\ UNCHANGED <<outputs, exit_code>>
       ELSE IF Len(GenerateMatrixResult) # UnpackTargets
       THEN /\ Raise("ValueError: too many values to unpack (expected 3)")
            /\ UNCHANGED <<outputs, exit_code>>
       ELSE \E up \in BOOLEAN, ties \in MixTies :
               LET saved == SaveOutputs(GenerateMatrixResult[1], up, ties)
               IN  IF saved.error # "none"
                   THEN /\ mpc' = "except"
                        /\ mstate' = [mstate EXCEPT !.error = saved.error,
                                                    !.stages = saved.stages]
                        /\ outputs' = outputs \o saved.printed
                        /\ UNCHANGED exit_code
                   ELSE /\ mstate' = [mstate EXCEPT !.stages = saved.stages]
                        /\ Exit("0", saved.printed)
    /\ UNCHANGED menv
    /\ UNCHANGED exceptMain

\* lines 188-192
ExceptHandler ==
    /\ mpc = "except"
    /\ Exit("1", <<"Error during processing:">>)
    /\ UNCHANGED <<menv, mstate>>
    /\ UNCHANGED exceptMain

MainInit ==
    /\ mpc = "parse_args"
    /\ menv = EnvUnknown
    /\ mstate = NoLocals
    /\ outputs = <<>>
    /\ exit_code = "running"
    /\ QuantIdle /\ MixIdle /\ ConvIdle /\ InvIdle /\ DimIdle /\ FileIdle

MainNext ==
    \/ ParseArgs
    \/ CheckInputDir
    \/ GetImageFiles
    \/ LoadImage
    \/ GetUserInput
    \/ GenerateMatrix
    \/ SplitStep
    \/ EndSplit
    \/ MapPixels
    \/ ProcessResult
    \/ ExceptHandler

SpecMain == MainInit /\ [][MainNext]_vars

(* C3: when the input directory holds an image that loads and the requested
   width, height and tile size are all positive, main runs its stages in
   order - generate the matrix, save the text file, save the JSON file, save
   the PNG preview - and ends with 'Processing completed successfully' without
   taking the error exit (exit code 1). *)
C3_PipelineCompletes ==
    (/\ mpc = "done"
     /\ menv.loaded
     /\ mstate.have_input
     /\ mstate.width_cm > 0 /\ mstate.height_cm > 0 /\ mstate.tile_size_cm > 0) =>
        /\ exit_code # "1"
        /\ mstate.stages = <<"generate_matrix", "save_matrix_to_file",
                             "save_matrix_to_json", "recreate_image_from_matrix">>
        /\ outputs[Len(outputs)] = "Processing completed successfully!"

---------------------------------------------------------------------------
(* MatrixGenerator.generate_matrix, calculate_matrix_dimensions and
   get_matrix_info.  Tile sizes are multiples of half a centimetre, which a
   float holds exactly. *)

\* the largest sampled image side for generate_matrix, in pixels
MaxGenImg == 3
\* the largest sampled request for generate_matrix, in centimetres
MaxGenReq == 3

\* the largest number of cells of a sampled generate_matrix result
MaxGenCells == 3

\* image_to_array: the arrays of one shape that the resize may give
GenArrays(shape) ==
    {[rows |-> shape[1], cols |-> shape[2], px |-> p] :
        p \in [1..(shape[1] * shape[2]) -> GenColors]}

\* tile_size_cm of the generator, in tenths of a centimetre
GenTiles == {5, 10, TILE_SIZE_CM}

GenInputs ==
    {GenArgs(<<ow, oh>>, w, h, t, p, q, nc) :
        ow \in 1..MaxGenImg, oh \in 1..MaxGenImg,
        w \in (0 - 1)..MaxGenReq, h \in (0 - 1)..MaxGenReq,
        t \in GenTiles, p \in BOOLEAN, q \in BOOLEAN,
        nc \in {[given |-> FALSE, value |-> 0], [given |-> TRUE, value |-> 2]}}

\* lines 109-119: the output size in centimetres, numerators over den
ActualDimensions(in) ==
    IF in.preserve_aspect_ratio
    THEN LET d == PreservingAspectRatio([orig_width |-> in.image_size[1],
                                         orig_height |-> in.image_size[2],
                                         width |-> in.width, height |-> in.height])
         IN  [den |-> d.den, size_cm |-> <<d.width, d.height>>,
              diff_cm |-> <<d.width_diff, d.height_diff>>]
    ELSE [den |-> 1, size_cm |-> <<in.width, in.height>>, diff_cm |-> <<0, 0>>]

\* line 122: (rows, cols) for the arguments of generate_matrix
ShapeOf(in) ==
    LET a == ActualDimensions(in)
    IN  CalculateMatrixDimensions(a.size_cm[1], a.size_cm[2], a.den, in.tile_size_cm)

\* what a MatrixGenerator call gives back
Result(op, error, in, m) ==
    LET a == ActualDimensions(in)
    IN  [op |-> op, error |-> error, shape |-> ShapeOf(in), den |-> a.den,
         size_cm |-> a.size_cm, diff_cm |-> a.diff_cm, matrix |-> m, total_tiles |-> 0]

\* generator.calculate_matrix_dimensions(width, height) called on its own
CalculateMatrixDimensionsCall ==
    /\ gpc = "none"
    /\ gpc' = "done"
    /\ gen_out' = [NoResult EXCEPT
                     !.op = "calculate_matrix_dimensions",
                     !.size_cm = <<gen_in.width, gen_in.height>>,
                     !.shape = CalculateMatrixDimensions(gen_in.width, gen_in.height, 1,
                                                         gen_in.tile_size_cm)]
    /\ UNCHANGED <<gen_in, dim_in, dim_out>>
    /\ UNCHANGED exceptDim

\* generate_matrix, lines 109-131, up to the split loop of quantize_matrix:
\* Image.resize raises for a size that is not positive; else the resampled
\* array goes to the quantizer, or is returned as it is
GenerateMatrixCall ==
    /\ gpc = "none"
    /\ qpc = "none"
    /\ LET shape == ShapeOf(gen_in)
       IN  IF shape[1] <= 0 \/ shape[2] <= 0
           THEN /\ gpc' = "raised"
                /\ gen_out' = Result("generate_matrix",
                                     "ValueError: height and width must be > 0",
                                     gen_in, NoMatrix)
                /\ UNCHANGED quantVars
           ELSE /\ shape[1] * shape[2] <= MaxGenCells
                /\ \E arr \in GenArrays(shape) :
                      IF gen_in.quantize_colors
                      THEN /\ matrix' = arr
                           /\ boxes' = <<arr.px>>
                           /\ num_colors_arg' = gen_in.num_colors
                           /\ num_colors' = NumColorsOr(gen_in.num_colors)
                           /\ palette' = NonePalette
                           /\ qpc' = "split"
                           /\ quantized' = quantized
                           /\ calls' = calls
                           /\ gpc' = "quantize_matrix"
                           /\ gen_out' = gen_out
                      ELSE /\ gpc' = "returned"
                           /\ gen_out' = Result("generate_matrix", "none", gen_in, arr)
                           /\ UNCHANGED quantVars
    /\ UNCHANGED <<gen_in, dim_in, dim_out>>
    /\ UNCHANGED <<mixVars, convVars, invVars, fileVars, mainVars>>

\* line 133: quantize_matrix is back and generate_matrix returns
GenerateMatrixReturn ==
    /\ gpc = "quantize_matrix"
    /\ qpc \in {"returned", "raised"}
    /\ IF qpc = "raised"
       THEN /\ gpc' = "raised"
            /\ gen_out' = Result("generate_matrix", "ValueError", gen_in, NoMatrix)
       ELSE /\ gpc' = "returned"
            /\ gen_out' = Result("generate_matrix", "none", gen_in, quantized)
    /\ UNCHANGED <<gen_in, dim_in, dim_out>>
    /\ UNCHANGED exceptDim

\* get_matrix_info on the matrix generate_matrix returned
GetMatrixInfo ==
    /\ gpc = "returned"
    /\ gpc' = "done"
    /\ gen_out' = [gen_out EXCEPT !.op = "get_matrix_info",
                                  !.total_tiles = gen_out.matrix.rows * gen_out.matrix.cols]
    /\ UNCHANGED <<gen_in, dim_in, dim_out>>
    /\ UNCHANGED exceptDim

GenInit ==
    /\ gpc = "none"
    /\ gen_in \in GenInputs
    /\ gen_out = NoResult
    /\ dim_in = [orig_width |-> 1, orig_height |-> 1, width |-> 1, height |-> 1]
    /\ dim_out = NoCall
    /\ QuantIdle /\ MixIdle /\ ConvIdle /\ InvIdle /\ FileIdle /\ MainIdle

GenNext ==
    \/ CalculateMatrixDimensionsCall
    \/ GenerateMatrixCall
    \/ SplitStep
    \/ EndSplit
    \/ MapPixels
    \/ GenerateMatrixReturn
    \/ GetMatrixInfo

SpecGen == GenInit /\ [][GenNext]_vars

(* C11: dimension handling rejects bad sizes and produces no grid:
   generate_matrix fails when the requested width or height is <= 0, and
   grid sizing fails when the tile size makes rows or columns resolve to 0. *)
C11_BadSizesRejected ==
    /\ (gpc \in {"returned", "done"} /\ gen_out.op # "calculate_matrix_dimensions"
        /\ (gen_in.width <= 0 \/ gen_in.height <= 0)) =>
            /\ gen_out.error # "none"
            /\ gen_out.matrix = NoMatrix
    /\ (gen_out.op = "calculate_matrix_dimensions"
        /\ (gen_out.shape[1] = 0 \/ gen_out.shape[2] = 0)) =>
            gen_out.error # "none"

(* C20: for every positive output size and positive tile size,
   calculate_matrix_dimensions returns cols = floor(width_out / tile_size) and
   rows = floor(height_out / tile_size), so cols*tile_size <= width_out <
   (cols+1)*tile_size (same for rows); the matrix generate_matrix returns has
   exactly that shape (rows, cols, 3), and get_matrix_info reports
   total_tiles = rows*cols. *)
C20_GridShape ==
    LET t == gen_in.tile_size_cm
        rows == gen_out.shape[1]
        cols == gen_out.shape[2]
        w == gen_out.size_cm[1]
        h == gen_out.size_cm[2]
        d == gen_out.den
    IN  (gen_out.op # "none" /\ gen_out.error = "none" /\ w > 0 /\ h > 0 /\ t > 0) =>
            /\ cols * t * d <= 10 * w /\ 10 * w < (cols + 1) * t * d
            /\ rows * t * d <= 10 * h /\ 10 * h < (rows + 1) * t * d
            /\ gen_out.op \in {"generate_matrix", "get_matrix_info"} =>
                  /\ gen_out.matrix.rows = rows
                  /\ gen_out.matrix.cols = cols
                  /\ Len(gen_out.matrix.px) = rows * cols
                  /\ \A i \in 1..Len(gen_out.matrix.px) : Len(gen_out.matrix.px[i]) = 3
            /\ gen_out.op = "get_matrix_info" => gen_out.total_tiles = rows * cols

\* a quantized 3 x 1 matrix was generated from a request that is no multiple of
\* the tile size, and get_matrix_info counted its tiles
C20_Witness ==
    /\ gen_out.op = "get_matrix_info"
    /\ gen_in.quantize_colors
    /\ gen_out.shape = <<3, 1>>
    /\ gen_out.total_tiles = 3
    /\ 10 * gen_out.size_cm[1] > gen_in.tile_size_cm * gen_out.den

---------------------------------------------------------------------------
(* ColorQuantizer: the uniform grid and the distinctness of the palette *)

(* C12: quantizing a uniform 10x10 grid whose every cell is (255,128,64) with
   K=8 returns a palette that contains exactly one distinct colour, equal to
   (255,128,64), and a grid in which every cell equals that colour. *)
C12_UniformGridOneColor ==
    (matrix = UniformGrid /\ num_colors = 8) =>
        /\ qpc # "raised"
        /\ PaletteBuilt => SeqRange(palette.data) = {<<255, 128, 64>>}
        /\ qpc = "returned" =>
              /\ quantized.rows = 10
              /\ quantized.cols = 10
              /\ Len(quantized.px) = 100
              /\ \A i \in 1..100 : quantized.px[i] = <<255, 128, 64>>

\* the uniform grid was quantized with K = 8: eight boxes were cut
C12_Witness ==
    /\ qpc = "returned"
    /\ matrix = UniformGrid
    /\ num_colors = 8
    /\ Len(boxes) = 8
    /\ Len(palette.data) = 8

\* how many palette entries are averages of median-cut boxes
FromBoxes == Min(Len(BoxColors(boxes)), Len(palette.data))

(* C13: the palette built by quantization holds pairwise distinct RGB triples:
   the only duplicates are black entries appended as padding; no two entries
   that come from median-cut boxes are equal. *)
C13_PaletteDistinct ==
    (PaletteBuilt /\ Len(matrix.px) > 0 /\ num_colors >= 1) =>
        \A i, j \in 1..FromBoxes : i # j => palette.data[i] # palette.data[j]

---------------------------------------------------------------------------
(* ColorBaseSelector.calculate_mix_instructions: the recipe is never empty *)

(* C14: calculate_mix_instructions never returns an empty recipe: for every
   CMYK input with channels in [0,100] the entry list has at least one entry
   (the 'Use white (100%)' branch is not taken), and for the all-zero CMYK
   input the recipe is exactly the single entry white at 100%. *)
C14_RecipeNeverEmpty ==
    mix_info.called =>
        /\ Len(mix_info.mix) >= 1
        /\ mix_info.instruction.text # "Use white (100%)"
        /\ (target_cmyk = [c |-> 0, m |-> 0, y |-> 0, k |-> 0]) =>
              mix_info.mix = <<Entry("white", 1000)>>

\* the all-zero CMYK input was resolved
C14_Witness ==
    /\ mix_info.called
    /\ target_cmyk = [c |-> 0, m |-> 0, y |-> 0, k |-> 0]
    /\ Len(mix_info.mix) = 1

---------------------------------------------------------------------------
(* The colour record and the HSL and hex conversions. *)

(* C15: for every integer RGB input, in or out of [0,255], the record of
   get_industry_standards has the clamped triple as its rgb field, and its
   hex, cmyk and hsl fields are those of that same clamped triple. *)
C15_RecordOfClampedColor ==
    conv_op = "get_industry_standards" =>
        LET out == conv_out.value
            cl == ClampRgb(rgb_in)
        IN  /\ out.rgb = cl
            /\ out.hex = RgbToHex(cl)
            /\ \E t \in Ties : out.cmyk = RgbToCmyk(cl, t)
            /\ \E t \in Ties : out.hsl = RgbToHsl(cl, t)

(* C16: rgb_to_hsl never divides by zero; saturation and hue are 0 whenever
   the largest and smallest clamped channels are equal; the hue is in
   [0,360) and saturation and lightness are percentages in [0,100]; white
   has s = 0 and l = 100, black has l = 0. *)
C16_HslRanges ==
    conv_op = "rgb_to_hsl" =>
        LET out == conv_out.value
            cl == ClampRgb(rgb_in)
        IN  /\ out.error = "none"
            /\ SetMax({cl[1], cl[2], cl[3]}) = SetMin({cl[1], cl[2], cl[3]}) =>
                  out.s = 0 /\ out.h = 0
            /\ out.h >= 0 /\ out.h < 3600
            /\ out.s \in 0..1000
            /\ out.l \in 0..1000
            /\ cl = <<255, 255, 255>> => out.s = 0 /\ out.l = 1000
            /\ cl = <<0, 0, 0>> => out.l = 0

\* a chromatic colour whose hue wraps below 360 was converted: (300, -10, 128)
\* clamps to (255, 0, 128), hue 329.9, fully saturated, lightness 50
C16_Witness ==
    /\ conv_op = "rgb_to_hsl"
    /\ rgb_in = <<300, -10, 128>>
    /\ conv_out.value.error = "none"
    /\ conv_out.value.h = 3299
    /\ conv_out.value.s = 1000
    /\ conv_out.value.l = 500

\* the value of a hexadecimal digit
HexValue(ch) == CHOOSE i \in 0..15 : HexDigits[i + 1] = ch

\* #RRGGBB read back as a triple
HexToRgb(hex) ==
    <<16 * HexValue(hex[2]) + HexValue(hex[3]),
      16 * HexValue(hex[4]) + HexValue(hex[5]),
      16 * HexValue(hex[6]) + HexValue(hex[7])>>

(* C17: rgb_to_hex clamps each channel into [0,255] and returns '#' and
   exactly six uppercase hexadecimal digits, two zero-padded digits per
   channel in R, G, B order; the code decodes back to the clamped triple (so
   the mapping is injective on [0,255]^3) and re-encoding the decoded triple
   gives the same code; (300, -10, 128) gives #FF0080. *)
C17_HexCode ==
    conv_op = "rgb_to_hex" =>
        LET hex == conv_out.value
            cl == ClampRgb(rgb_in)
        IN  /\ Len(hex) = 7
            /\ hex[1] = "#"
            /\ \A i \in 2..7 : \E j \in 1..16 : hex[i] = HexDigits[j]
            /\ \A i \in 1..3 :
                  16 * HexValue(hex[2 * i]) + HexValue(hex[2 * i + 1]) = cl[i]
            /\ HexToRgb(hex) = cl
            /\ RgbToHex(HexToRgb(hex)) = hex
            /\ rgb_in = <<300, -10, 128>> => hex = <<"#", "F", "F", "0", "0", "8", "0">>

\* an out-of-range colour with a channel below 16 was encoded
C17_Witness ==
    /\ conv_op = "rgb_to_hex"
    /\ rgb_in = <<300, 1, 128>>
    /\ conv_out.value = <<"#", "F", "F", "0", "1", "8", "0">>

---------------------------------------------------------------------------
(* The base colours. *)

(* C18: select_base_colors returns, whatever the matrix, exactly five entries
   in the order cyan, magenta, yellow, black, white, each with purchase = True,
   its canonical CMYK and the RGB derived from it: (0,255,255), (255,0,255),
   (255,255,0), (0,0,0) and (255,255,255). *)
C18_FivePrimaries ==
    file_op = "select_base_colors" =>
        LET out == file_out.value
        IN  /\ Len(out) = 5
            /\ [i \in 1..5 |-> out[i].name] = <<"cyan", "magenta", "yellow", "black", "white">>
            /\ \A i \in 1..5 : out[i].purchase = TRUE
            /\ [i \in 1..5 |-> <<out[i].cmyk.c, out[i].cmyk.m, out[i].cmyk.y, out[i].cmyk.k>>]
                   = << <<100, 0, 0, 0>>, <<0, 100, 0, 0>>, <<0, 0, 100, 0>>,
                        <<0, 0, 0, 100>>, <<0, 0, 0, 0>> >>
            /\ [i \in 1..5 |-> out[i].rgb]
                   = << <<0, 255, 255>>, <<255, 0, 255>>, <<255, 255, 0>>,
                        <<0, 0, 0>>, <<255, 255, 255>> >>

\* the base colours were selected for a grid that holds none of them
C18_Witness ==
    /\ file_op = "select_base_colors"
    /\ file_matrix.rows * file_matrix.cols >= 2
    /\ \A i \in 1..Len(file_matrix.px) :
          \A j \in 1..5 : file_matrix.px[i] # file_out.value[j].rgb
    /\ file_out.value[4].name = "black"
    /\ file_out.value[4].rgb = <<0, 0, 0>>

---------------------------------------------------------------------------
(* A source image that does not open. *)

\* how many times main printed the line
TimesPrinted(line) == Cardinality({i \in 1..Len(outputs) : outputs[i] = line})

(* C19: when the image cannot be opened, load_image returns None and main
   stops working on it: the load is tried once, no dimension is asked for, no
   matrix is generated and no text, JSON or PNG output is written. *)
C19_LoadFailureAborts ==
    TimesPrinted("Error loading image") > 0 =>
        /\ mpc = "done"
        /\ ~menv.loaded
        /\ TimesPrinted("Error loading image") = 1
        /\ SubSeq(outputs, Len(outputs) - 1, Len(outputs))
               = <<"Error loading image", "Failed to load image.">>
        /\ ~mstate.have_input
        /\ TimesPrinted("=== Mosaic Pixel Matrixator ===") = 0
        /\ mstate.stages = <<>>
        /\ mstate.shape = <<0, 0>>
        /\ QuantIdle
        /\ exit_code # "1"

\* main found two image files and the first one did not open
C19_Witness ==
    /\ mpc = "done"
    /\ menv.files = 2
    /\ ~menv.loaded
    /\ outputs[Len(outputs)] = "Failed to load image."
    /\ mstate.stages = <<>>

---------------------------------------------------------------------------
(* ColorQuantizer: the median-cut loop *)

(* C21: the split loop runs as long as fewer than K boxes exist and some box
   holds more than one point: when palette construction ends on a non-empty
   grid, either there are exactly K boxes or every box holds exactly one
   point. *)
C21_LoopRunsToTheEnd ==
    (PaletteBuilt /\ Len(matrix.px) > 0 /\ num_colors >= 1) =>
        \/ Len(boxes) = num_colors
        \/ \A i \in 1..Len(boxes) : Len(boxes[i]) = 1

\* the sum of one channel over the points of a box
ChannelSum(box, ch) == SeqSum([i \in 1..Len(box) |-> box[i][ch]])

(* C22: each palette entry that comes from a median-cut box is, per channel,
   the arithmetic mean of that box's points rounded to the nearest integer,
   and within [0,255]; a box whose channel values are 1 and 2 yields 2. *)
C22_EntryIsRoundedMean ==
    (PaletteBuilt /\ Len(matrix.px) > 0 /\ num_colors >= 1) =>
        \A i \in 1..FromBoxes : \A ch \in 1..3 :
            /\ palette.data[i][ch] \in 0..255
            /\ 2 * Abs(Len(boxes[i]) * palette.data[i][ch] - ChannelSum(boxes[i], ch))
                  <= Len(boxes[i])
            /\ (Len(boxes[i]) = 2 /\ ChannelSum(boxes[i], ch) = 3) => palette.data[i][ch] = 2

\* how many times x occurs in a sequence
CountIn(s, x) == Cardinality({i \in 1..Len(s) : s[i] = x})

\* two sequences hold the same elements the same number of times
SameMultiset(s, t) ==
    /\ Len(s) = Len(t)
    /\ \A x \in SeqRange(s) \cup SeqRange(t) : CountIn(s, x) = CountIn(t, x)

\* box idx of bs was split along channel ch into the two last boxes of cs
SplitOf(bs, cs, idx, ch) ==
    LET n == Len(bs[idx])
        box1 == cs[Len(cs) - 1]
        box2 == cs[Len(cs)]
    IN  /\ \A j \in 1..Len(bs) : MaxRange(bs[j]) <= MaxRange(bs[idx])
        /\ \A j \in 1..(idx - 1) : MaxRange(bs[j]) < MaxRange(bs[idx])
        /\ Ranges(bs[idx])[ch] = MaxRange(bs[idx])
        /\ \A c \in 1..(ch - 1) : Ranges(bs[idx])[c] < MaxRange(bs[idx])
        /\ Len(cs) = Len(bs) + 1
        /\ SubSeq(cs, 1, Len(bs) - 1) = Pop(bs, idx)
        /\ Len(box1) = n \div 2
        /\ Len(box2) = n - (n \div 2)
        /\ SameMultiset(box1 \o box2, bs[idx])
        /\ \A i, j \in 1..n : i < j => (box1 \o box2)[i][ch] <= (box1 \o box2)[j][ch]

(* C23: in every iteration that performs a split, the box that is split has
   the greatest score among all boxes (its largest single-channel range; the
   lowest index wins ties); it is split along its channel of largest range
   (lowest channel on ties) after sorting its n points ascending by that
   channel, at index floor(n/2): the first half has floor(n/2) points, the
   second ceil(n/2), every point of the first half is <= every point of the
   second on that channel, and the two halves replace the original box. *)
C23_SplitStep ==
    [][(qpc = "split" /\ boxes' # boxes) =>
          \E idx \in 1..Len(boxes) : \E ch \in 1..3 : SplitOf(boxes, boxes', idx, ch)]_vars

\* a box whose first two channels tie for the largest range was split along
\* the first one, which reordered its two points
C23_Witness ==
    /\ qpc = "split"
    /\ matrix.px = << <<2, 1, 0>>, <<1, 2, 0>> >>
    /\ boxes = << << <<1, 2, 0>> >>, << <<2, 1, 0>> >> >>

\* the lowest index among the palette entries at the least weighted distance
FirstLeastIdx(color, pal) ==
    SetMin({i \in 1..Len(pal) :
              \A j \in 1..Len(pal) :
                 WeightedDistance(color, pal[i]) <= WeightedDistance(color, pal[j])})

(* C24: for every cell and every non-empty palette, the colour chosen by
   _find_closest_color is a palette entry that minimizes the weighted squared
   distance 0.299*dR^2 + 0.587*dG^2 + 0.114*dB^2 to the cell's colour, and
   among entries at equal minimal distance it is the one with the lowest
   palette index. *)
C24_ClosestLowestIndex ==
    (qpc = "returned" /\ Len(palette.data) > 0) =>
        \A i \in 1..Len(matrix.px) :
            /\ \E k \in 1..Len(palette.data) :
                  /\ quantized.px[i] = palette.data[k]
                  /\ \A j \in 1..Len(palette.data) :
                        WeightedDistance(matrix.px[i], palette.data[k])
                            <= WeightedDistance(matrix.px[i], palette.data[j])
            /\ quantized.px[i] = palette.data[FirstLeastIdx(matrix.px[i], palette.data)]

(* C25: when median-cut ends with B < K boxes on a non-empty grid, the palette
   is exactly the B box colours followed by K - B black padding entries, and
   no cell of the grid is remapped to a padding entry: for every cell, every
   padding entry is either farther than some box colour or equal to a box
   colour, which comes first. *)
C25_PaddingNeverChosen ==
    (PaletteBuilt /\ Len(matrix.px) > 0 /\ num_colors >= 1 /\ Len(boxes) < num_colors) =>
        LET B == Len(boxes)
        IN  /\ Len(palette.data) = num_colors
            /\ \A i \in 1..B : \A ch \in 1..3 :
                  palette.data[i][ch] = ChannelSum(boxes[i], ch) \div Len(boxes[i])
            /\ \A k \in (B + 1)..num_colors : palette.data[k] = BLACK
            /\ \A i \in 1..Len(matrix.px) : \A k \in (B + 1)..num_colors :
                  \E j \in 1..B :
                     \/ palette.data[j] = palette.data[k]
                     \/ WeightedDistance(matrix.px[i], palette.data[j])
                           < WeightedDistance(matrix.px[i], palette.data[k])
            /\ qpc = "returned" =>
                  \A i \in 1..Len(matrix.px) :
                     \E j \in 1..B : quantized.px[i] = palette.data[j]

\* a grid without black was quantized with K = 3 into two boxes and one black
\* padding entry, which no cell took
C25_Witness ==
    /\ qpc = "returned"
    /\ num_colors = 3
    /\ Len(boxes) = 2
    /\ palette.data[3] = BLACK
    /\ BLACK \notin SeqRange(matrix.px)
    /\ BLACK \notin SeqRange(quantized.px)

---------------------------------------------------------------------------
(* ColorBaseSelector.calculate_mix_instructions: which entries a recipe has *)

\* the place of a primary in the order cyan, magenta, yellow, black, white
RankOf(color) ==
    CASE color = "cyan" -> 1
      [] color = "magenta" -> 2
      [] color = "yellow" -> 3
      [] color = "black" -> 4
      [] color = "white" -> 5

\* the recipe holds an entry of that colour
Holds(mix, color) == \E i \in 1..Len(mix) : mix[i].color = color

(* C26: for every CMYK input with channels in [0,100] the recipe entries are
   in the order cyan, magenta, yellow, black, white; cyan, magenta, yellow or
   black is present exactly when its channel is > 0; white is present exactly
   when all four channels are below 10 (its amount before the scaling is then
   100 - max(c,m,y,k)) or, otherwise, when the channel sum is below 95 (amount
   100 - sum). *)
C26_RecipeEntries ==
    mix_info.called =>
        LET t == target_cmyk
            mix == mix_info.mix
            raw == mix_info.raw
            light == t.c < 1000 /\ t.m < 1000 /\ t.y < 1000 /\ t.k < 1000
            total == t.c + t.m + t.y + t.k
            amount == IF light THEN 10000 - SetMax({t.c, t.m, t.y, t.k}) ELSE 10000 - total
        IN  /\ \A i, j \in 1..Len(mix) : i < j => RankOf(mix[i].color) < RankOf(mix[j].color)
            /\ Holds(mix, "cyan") <=> t.c > 0
            /\ Holds(mix, "magenta") <=> t.m > 0
            /\ Holds(mix, "yellow") <=> t.y > 0
            /\ Holds(mix, "black") <=> t.k > 0
            /\ Holds(mix, "white") <=> (light \/ total < 9500)
            /\ [i \in 1..Len(raw) |-> raw[i].color] = [i \in 1..Len(mix) |-> mix[i].color]
            /\ \A i \in 1..Len(raw) :
                  raw[i].color = "white" => 2 * Abs(10 * raw[i].percentage - amount) <= 10

\* a recipe of all five primaries: no channel is 0, one is above 10 and the
\* sum, 75.05, is below 95
C26_Witness ==
    /\ mix_info.called
    /\ target_cmyk = [c |-> 2500, m |-> 2500, y |-> 2500, k |-> 5]
    /\ Len(mix_info.mix) = 5
    /\ mix_info.mix[5].color = "white"

---------------------------------------------------------------------------
(* ColorQuantizer: one quantizer called several times, and get_palette *)

\* the largest number of quantize_matrix calls on one quantizer
MaxCalls == 2

\* the palette sizes of the quantizers that are called again
CallKs == 0..3

\* the matrices handed to them: the empty grid, one cell, two and three cells
\* that a cut separates, and four cells of which three tie on the sort key
CallMatrices ==
    { [rows |-> 0, cols |-> 1, px |-> <<>>],
      [rows |-> 1, cols |-> 1, px |-> << <<200, 100, 50>> >>],
      [rows |-> 1, cols |-> 2, px |-> << <<2, 1, 0>>, <<1, 2, 0>> >>],
      [rows |-> 3, cols |-> 1, px |-> << <<1, 2, 0>>, <<2, 1, 0>>, <<2, 1, 0>> >>],
      [rows |-> 2, cols |-> 2,
       px |-> << <<255, 255, 255>>, <<255, 128, 64>>, <<255, 255, 255>>, <<0, 0, 0>> >>] }

\* a later quantize_matrix call on the same quantizer
QuantizeMatrixAgain(m) ==
    /\ qpc = "returned"
    /\ Len(calls.past) < MaxCalls
    /\ StartQuantize(m)

\* get_palette, between calls: an empty 0 x 3 array while self.palette is None
GetPalette ==
    /\ qpc \in {"ready", "returned"}
    /\ calls' = [calls EXCEPT !.got = IF palette.kind = "None" THEN Array(<<>>) ELSE palette]
    /\ UNCHANGED <<qpc, num_colors_arg, num_colors, palette, matrix, boxes, quantized>>
    /\ UNCHANGED exceptQuant

CallsNext ==
    \/ \E k \in CallKs : NewQuantizer(k)
    \/ \E m \in CallMatrices : QuantizeMatrix(m)
    \/ \E m \in CallMatrices : QuantizeMatrixAgain(m)
    \/ SplitStep
    \/ EndSplit
    \/ MapPixels
    \/ GetPalette

SpecCalls == QuantInit /\ [][CallsNext]_vars

\* the split loop is a loop of one thread: it goes on until it ends
SpecCallsFair == SpecCalls /\ WF_vars(SplitStep) /\ WF_vars(EndSplit)


\* the number of splits the running call has made
SplitsMade == Len(calls.cuts)

\* C27: palette construction terminates for every pixel list and every K: a
\* step of the split loop either ends the loop or raises the number of boxes
\* by exactly one, at most K - 1 splits happen (none for K <= 1), a call in the
\* loop leaves it with the palette built, and two calls on the same pixels
\* store the same palette.
C27_PaletteConstructionTerminates ==
    /\ [][qpc = "split" =>
            \/ qpc' = "map" /\ boxes' = boxes
            \/ qpc' = "split" /\ Len(boxes') = Len(boxes) + 1]_vars
    /\ [](SplitsMade <= Max(num_colors - 1, 0))
    /\ (qpc = "split") ~> PaletteBuilt
    /\ [](\A i, j \in 1..Len(calls.past) :
            calls.past[i].matrix.px = calls.past[j].matrix.px =>
                calls.past[i].palette = calls.past[j].palette)

\* two calls on the same four pixels, each with K - 1 = 2 splits
C27_Witness ==
    /\ Len(calls.past) = 2
    /\ calls.past[1].matrix = calls.past[2].matrix
    /\ Len(calls.past[1].matrix.px) = 4
    /\ Len(calls.past[2].cuts) = 2
    /\ num_colors = 3


\* how often x occurs in all the boxes together
CountInBoxes(x) == SeqSum([b \in 1..Len(boxes) |-> CountIn(boxes[b], x)])

\* C28: at every point of the median-cut loop on a non-empty grid no box is
\* empty and the boxes partition the input: every sample is in the boxes as
\* often as in the input, so no split loses or duplicates a sample.
C28_BoxesPartitionInput ==
    (qpc \in {"split", "map", "returned", "raised"} /\ Len(matrix.px) > 0) =>
        /\ Len(boxes) > 0
        /\ \A b \in 1..Len(boxes) : Len(boxes[b]) > 0
        /\ SeqSum([b \in 1..Len(boxes) |-> Len(boxes[b])]) = Len(matrix.px)
        /\ \A x \in SeqRange(matrix.px) \cup UNION {SeqRange(boxes[b]) : b \in 1..Len(boxes)} :
               CountInBoxes(x) = CountIn(matrix.px, x)

\* three boxes after two splits of an input that holds a sample twice
C28_Witness ==
    /\ qpc = "split"
    /\ Len(boxes) = 3
    /\ \E i, j \in 1..Len(matrix.px) : i < j /\ matrix.px[i] = matrix.px[j]
    /\ \E b \in 1..Len(boxes) : Len(boxes[b]) > 1


\* the result is the fit-to-width candidate (W, W / a) with its deltas
IsFitToWidth(in, out) ==
    /\ out.width = in.width * out.den
    /\ out.height * in.orig_width = in.width * in.orig_height * out.den
    /\ out.width_diff = 0
    /\ out.height_diff = Abs(out.height - in.height * out.den)

\* the result is the fit-to-height candidate (H * a, H) with its deltas
IsFitToHeight(in, out) ==
    /\ out.height = in.height * out.den
    /\ out.width * in.orig_height = in.height * in.orig_width * out.den
    /\ out.height_diff = 0
    /\ out.width_diff = Abs(out.width - in.width * out.den)

\* the request has the aspect ratio of the source: W / H = a
MatchesAspectRatio(in) == in.width * in.orig_height = in.height * in.orig_width

\* C29: the score of Candidate B is the aspect ratio a = width / height times
\* the score of Candidate A; so for a source with width >= height every
\* positive request gets the fit-to-width candidate (W, W / a), the
\* fit-to-height candidate is returned only for a source with width < height
\* and a request that does not match the aspect ratio, and one of the two
\* returned deltas is always 0.
C29_ScoresScaleByAspectRatio ==
    dim_out.called =>
        /\ dim_out.option2_total_diff * dim_in.orig_height
               = dim_out.option1_total_diff * dim_in.orig_width
        /\ (dim_in.width > 0 /\ dim_in.height > 0) =>
              /\ dim_in.orig_width >= dim_in.orig_height =>
                    IsFitToWidth(dim_in, dim_out)
              /\ ~IsFitToWidth(dim_in, dim_out) =>
                    /\ IsFitToHeight(dim_in, dim_out)
                    /\ dim_in.orig_width < dim_in.orig_height
                    /\ ~MatchesAspectRatio(dim_in)
        /\ dim_out.width_diff = 0 \/ dim_out.height_diff = 0

\* the 200x100 source with the request (50, 50): fit-to-width gives (50, 25)
\* although the fit-to-height candidate (100, 50) keeps the requested height
C29_Witness ==
    /\ dim_out.called
    /\ dim_in = [orig_width |-> 200, orig_height |-> 100, width |-> 50, height |-> 50]
    /\ dim_out.width = 50 * dim_out.den
    /\ dim_out.height = 25 * dim_out.den
    /\ dim_out.option1_total_diff = 25 * dim_out.den
    /\ dim_out.option2_total_diff = 50 * dim_out.den


\* the palette _median_cut_quantize returns for the call that has just ended
PaletteOfThisCall ==
    IF Len(matrix.px) = 0
    THEN Array(EmptyGridPalette(num_colors))
    ELSE Array(BuildPalette(boxes, num_colors))

\* the palette of the most recent quantize_matrix call that has returned
LastPalette ==
    IF Len(calls.past) = 0 THEN Array(<<>>) ELSE calls.past[Len(calls.past)].palette

\* a step of a running call leaves the input matrix and num_colors alone
StepKeepsInput ==
    qpc \in {"split", "map"} =>
        /\ matrix' = matrix
        /\ num_colors' = num_colors
        /\ num_colors_arg' = num_colors_arg

\* what get_palette returns is the palette of the last call, and empty before
\* the first; get_palette changes no palette
GotIsLastPalette ==
    calls'.got # calls.got =>
        /\ calls'.got = LastPalette
        /\ Len(calls.past) = 0 => calls'.got = Array(<<>>)
        /\ palette' = palette

\* C30: quantize_matrix leaves its input matrix unchanged and returns a
\* matrix of the same shape; of the quantizer it changes only the stored
\* palette, which after any sequence of calls is the palette of the most
\* recent call; get_palette returns an empty 0 x 3 palette before the first
\* call and the stored palette after it.
C30_QuantizeMatrixFrame ==
    /\ [][StepKeepsInput]_vars
    /\ [](qpc = "returned" =>
            /\ quantized.rows = matrix.rows
            /\ quantized.cols = matrix.cols
            /\ Len(quantized.px) = matrix.rows * matrix.cols
            /\ palette = PaletteOfThisCall
            /\ calls.past[Len(calls.past)].matrix = matrix
            /\ palette = LastPalette)
    /\ [][GotIsLastPalette]_vars

\* a second call on another matrix has replaced the palette of the first, and
\* get_palette has returned the new one
C30_Witness ==
    /\ qpc = "returned"
    /\ Len(calls.past) = 2
    /\ calls.past[1].palette # calls.past[2].palette
    /\ calls.past[1].matrix # calls.past[2].matrix
    /\ calls.got = palette
    /\ palette = calls.past[2].palette
    /\ Len(palette.data) = 3

=============================================================================
